---------------------------- MODULE Spec2Model ----------------------------
(***************************************************************************)
(* Phoenix-SmartLocatorAI: the DOM scanner's locator pipeline              *)
(* (dom_scanner.py) and the Page Object exporter's best-per-name selection *)
(* (page_object_exporter.py).                                              *)
(*                                                                         *)
(* Python strings that the code inspects character by character (tags,    *)
(* attribute values, text, locator values) are sequences of one-character  *)
(* strings; the empty sequence stands for both "" and None (both falsy).   *)
(* An element record is a function whose domain is the set of keys that    *)
(* are present, as the Python dict is.                                     *)
(***************************************************************************)
EXTENDS Integers, Sequences, FiniteSets, TLC

\* ------------------------------------------------------------------------
\* Bounds of the model
\* ------------------------------------------------------------------------
MaxNodes == 2
MaxLocs == 3

\* ------------------------------------------------------------------------
\* Characters and string helpers (Python str methods and the re module)
\* ------------------------------------------------------------------------
LowerLetters == <<"a","b","c","d","e","f","g","h","i","j","k","l","m",
                  "n","o","p","q","r","s","t","u","v","w","x","y","z">>
UpperLetters == <<"A","B","C","D","E","F","G","H","I","J","K","L","M",
                  "N","O","P","Q","R","S","T","U","V","W","X","Y","Z">>
DigitChars == <<"0","1","2","3","4","5","6","7","8","9">>

Range(s) == {s[k] : k \in 1..Len(s)}

IsLower(c) == c \in Range(LowerLetters)
IsUpper(c) == c \in Range(UpperLetters)
IsLetter(c) == IsLower(c) \/ IsUpper(c)
IsDigit(c) == c \in Range(DigitChars)
IsAlnum(c) == IsLetter(c) \/ IsDigit(c)
IsSpace(c) == c \in {" ", "\n", "\t"}

IndexIn(c, s) == CHOOSE k \in 1..Len(s) : s[k] = c
ToUpperChar(c) == IF IsLower(c) THEN UpperLetters[IndexIn(c, LowerLetters)] ELSE c
ToLowerChar(c) == IF IsUpper(c) THEN LowerLetters[IndexIn(c, UpperLetters)] ELSE c

\* str.startswith / str.endswith / "sub in s"
StartsWith(s, p) == Len(p) <= Len(s) /\ SubSeq(s, 1, Len(p)) = p
EndsWith(s, p) == Len(p) <= Len(s) /\ SubSeq(s, Len(s) - Len(p) + 1, Len(s)) = p
Contains(s, sub) == \E k \in 1..(Len(s) - Len(sub) + 1) : SubSeq(s, k, k + Len(sub) - 1) = sub

\* str.strip()
RECURSIVE LStrip(_)
LStrip(s) == IF s # <<>> /\ IsSpace(Head(s)) THEN LStrip(Tail(s)) ELSE s
RECURSIVE RStrip(_)
RStrip(s) == IF s # <<>> /\ IsSpace(s[Len(s)]) THEN RStrip(SubSeq(s, 1, Len(s) - 1)) ELSE s
Strip(s) == RStrip(LStrip(s))

\* re.sub(r"\s+", " ", text): every run of whitespace becomes one blank
RECURSIVE CollapseSpace(_)
CollapseSpace(s) ==
    IF s = <<>> THEN <<>>
    ELSE IF IsSpace(Head(s))
         THEN <<" ">> \o CollapseSpace(LStrip(s))
         ELSE <<Head(s)>> \o CollapseSpace(Tail(s))

\* str.replace("'", "\\'")
RECURSIVE EscapeQuote(_)
EscapeQuote(s) ==
    IF s = <<>> THEN <<>>
    ELSE (IF Head(s) = "'" THEN <<"\\", "'">> ELSE <<Head(s)>>) \o EscapeQuote(Tail(s))

\* s.split(" ")[0]: the characters before the first blank
RECURSIVE FirstBySpace(_)
FirstBySpace(s) ==
    IF s = <<>> \/ Head(s) = " " THEN <<>> ELSE <<Head(s)>> \o FirstBySpace(Tail(s))

\* str(n) for a natural number
RECURSIVE IntToStr(_)
IntToStr(n) == IF n < 10 THEN <<DigitChars[n + 1]>>
               ELSE IntToStr(n \div 10) \o <<DigitChars[(n % 10) + 1]>>

\* dict.get(key, default)
Get(d, k, default) == IF k \in DOMAIN d THEN d[k] ELSE default


\* ------------------------------------------------------------------------
\* String constants of the documents that are explored
\* ------------------------------------------------------------------------
NoStr == <<>>
T_a == <<"a">>
T_button == <<"b","u","t","t","o","n">>
T_input == <<"i","n","p","u","t">>
T_select == <<"s","e","l","e","c","t">>
T_textarea == <<"t","e","x","t","a","r","e","a">>
T_h1 == <<"h","1">>
T_div == <<"d","i","v">>
S_go == <<"g","o">>
S_btn == <<"b","t","n">>
S_q == <<"q">>
S_tab == <<"t","a","b">>
S_Go == <<"G","o">>
S_t == <<"t">>
S_blank == <<" ">>
S_checkbox == <<"c","h","e","c","k","b","o","x">>
S_text == <<"t","e","x","t">>
S_search == <<"s","e","a","r","c","h">>
S_email == <<"e","m","a","i","l">>
S_password == <<"p","a","s","s","w","o","r","d">>
\* raw text as it stands in the document, before _normalize_text
TxtOk == <<" ","O","k">>
TxtQuote == <<"i","t","'","s">>
TxtPath == <<"/","/","b","[","2","]">>

\* INTERACTABLE_TAGS = {"a", "button", "input", "select", "textarea"}
INTERACTABLE_TAGS == {T_a, T_button, T_input, T_select, T_textarea}

\* ------------------------------------------------------------------------
\* The parsed document: a sequence of nodes in document order.  A node
\* carries the attributes the extractor reads; NoStr is a missing attribute.
\* ------------------------------------------------------------------------
Node(tag, id, name, class, text, value, aria, role, type, data) ==
    [tag |-> tag, id |-> id, name |-> name, class |-> class, text |-> text,
     value |-> value, aria |-> aria, role |-> role, type |-> type,
     placeholder |-> NoStr, href |-> NoStr, label |-> NoStr, data |-> data]

DataSets == {<<>>, [k \in {"data-test"} |-> S_t], [k \in {"data-testid"} |-> S_t]}
RawTexts == {NoStr, TxtOk, TxtQuote, TxtPath}

\* one node with every combination of the attributes the builders and the
\* scorer look at
RichNodes ==
    {Node(tag, id, name, class,
          IF tag = T_input THEN NoStr ELSE txt,
          IF tag = T_input THEN txt ELSE NoStr,
          aria, role, type, data) :
        tag \in {T_a, T_button, T_h1}, type \in {NoStr},
        id \in {NoStr, S_go}, name \in {NoStr, S_q}, class \in {NoStr, S_btn},
        txt \in RawTexts, aria \in {NoStr, S_Go, S_blank}, role \in {NoStr, S_tab},
        data \in DataSets}
    \cup
    {Node(T_input, id, name, class, NoStr, txt, aria, role, type, data) :
        type \in {NoStr, S_checkbox},
        id \in {NoStr, S_go}, name \in {NoStr, S_q}, class \in {NoStr, S_btn},
        txt \in RawTexts, aria \in {NoStr, S_Go}, role \in {NoStr, S_tab},
        data \in DataSets}

\* nodes with the attributes that interact across elements (id counts and
\* the position among same-tag elements)
PlainNodes ==
    {Node(tag, id, NoStr, class,
          IF tag = T_input THEN NoStr ELSE txt,
          IF tag = T_input THEN txt ELSE NoStr,
          NoStr, NoStr, NoStr, <<>>) :
        tag \in {T_a, T_input}, id \in {NoStr, S_go},
        class \in {NoStr, S_btn}, txt \in {NoStr, TxtOk}}

\* links whose tag is written in upper case in the document
T_A == <<"A">>
UpperNodes ==
    {Node(T_A, id, NoStr, NoStr, txt, NoStr, NoStr, NoStr, NoStr, <<>>) :
        id \in {NoStr, S_go}, txt \in {NoStr, TxtOk}}

\* the documents explored: the empty one, one rich node, one upper-case
\* link, or up to MaxNodes plain nodes
IsDocument(d) ==
    \/ d = <<>>
    \/ \E n \in RichNodes \cup UpperNodes : d = <<n>>
    \/ \E n \in 2..MaxNodes : d \in [1..n -> PlainNodes]

\* ------------------------------------------------------------------------
\* dom_scanner.py: the extractor
\* ------------------------------------------------------------------------
\* _normalize_text
_normalize_text(text) == Strip(CollapseSpace(text))

RecordKeys == {"tag", "id", "name", "class", "text", "aria-label", "role",
               "label_text", "href", "type", "value", "placeholder", "data"}

\* the parser lower-cases the names of the tags
TagName(el) == [k \in 1..Len(el.tag) |-> ToLowerChar(el.tag[k])]

\* BeautifulSoup(html, "lxml"): the nodes of the document as the parser
\* hands them over
ParseHtml(nodes) == [k \in 1..Len(nodes) |-> [nodes[k] EXCEPT !.tag = TagName(nodes[k])]]

\* the value _element_to_record stores under a key before the cleaning
RawField(el, k) ==
    CASE k = "tag" -> el.tag
      [] k = "id" -> el.id
      [] k = "name" -> el.name
      [] k = "class" -> el.class
      [] k = "text" -> _normalize_text(IF el.tag # T_input THEN el.text ELSE el.value)
      [] k = "aria-label" -> el.aria
      [] k = "role" -> el.role
      [] k = "label_text" ->
            IF el.tag \in {T_input, T_select, T_textarea} THEN _normalize_text(el.label) ELSE NoStr
      [] k = "href" -> IF el.tag = T_a THEN el.href ELSE NoStr
      [] k = "type" -> IF el.tag = T_input THEN el.type ELSE NoStr
      [] k = "value" -> IF el.tag = T_input THEN el.value ELSE NoStr
      [] k = "placeholder" ->
            IF el.tag \in {T_input, T_select, T_textarea} THEN el.placeholder ELSE NoStr
      [] k = "data" -> el.data

\* faulty variant: the keys with an empty value are kept
RecordWithEmptyKeys(el) ==
    [k \in RecordKeys |-> RawField(el, k)]

\* _element_to_record: the record keeps only the keys with a non-empty value
_element_to_record(el) ==
    [k \in {x \in RecordKeys : RawField(el, x) # <<>>} |-> RawField(el, k)]

RECURSIVE MapRecords(_)
MapRecords(nodes) ==
    IF nodes = <<>> THEN <<>>
    ELSE <<_element_to_record(Head(nodes))>> \o MapRecords(Tail(nodes))

\* soup.find_all(tag): the nodes of one tag, in document order
RECURSIVE FindAll(_, _)
FindAll(nodes, tag) ==
    IF nodes = <<>> THEN <<>>
    ELSE (IF Head(nodes).tag = tag THEN <<Head(nodes)>> ELSE <<>>) \o FindAll(Tail(nodes), tag)

\* extract_interactable_elements: "for tag in INTERACTABLE_TAGS" walks a Python
\* set of strings; tagOrder is the order in which the set yields its members
RECURSIVE extract_interactable_elements(_, _)
extract_interactable_elements(nodes, tagOrder) ==
    IF tagOrder = <<>> THEN <<>>
    ELSE MapRecords(FindAll(nodes, Head(tagOrder)))
         \o extract_interactable_elements(nodes, Tail(tagOrder))

\* the orders in which a set of strings can be iterated: str hashes are
\* salted per interpreter process, so every permutation can occur
RECURSIVE Perms(_)
Perms(S) ==
    IF S = {} THEN {<<>>}
    ELSE UNION {{<<x>> \o p : p \in Perms(S \ {x})} : x \in S}

\* the iteration orders of INTERACTABLE_TAGS, told apart by what they do to
\* the document: a tag that no node carries yields no element wherever it
\* stands in the order, so the orders of the tags present are enumerated
TagOrders(nodes) ==
    Perms({t \in INTERACTABLE_TAGS : \E k \in 1..Len(nodes) : nodes[k].tag = t})

\* ------------------------------------------------------------------------
\* dom_scanner.py: the naming engine
\* ------------------------------------------------------------------------
\* str.capitalize(): first character upper-cased, the rest lower-cased
Capitalize(p) ==
    IF p = <<>> THEN <<>>
    ELSE <<ToUpperChar(p[1])>> \o [k \in 1..(Len(p) - 1) |-> ToLowerChar(p[k + 1])]

\* _to_camel_case: re.split(r"[^a-zA-Z0-9]+", s), capitalize the non-empty
\* parts and join them; cur is the part being read
RECURSIVE CamelFrom(_, _)
CamelFrom(s, cur) ==
    IF s = <<>> THEN Capitalize(cur)
    ELSE IF IsAlnum(Head(s)) THEN CamelFrom(Tail(s), Append(cur, Head(s)))
         ELSE Capitalize(cur) \o CamelFrom(Tail(s), <<>>)

_to_camel_case(s) == CamelFrom(s, <<>>)

\* the suffix table of _guess_custom_name
NameSuffix(tag) ==
    CASE tag = T_a -> <<"L","i","n","k">>
      [] tag = T_button -> <<"B","u","t","t","o","n">>
      [] tag = T_input -> <<"I","n","p","u","t">>
      [] tag = T_select -> <<"S","e","l","e","c","t">>
      [] tag = T_textarea -> <<"T","e","x","t","a","r","e","a">>
      [] OTHER -> <<"E","l","e","m","e","n","t">>

\* faulty variant: the suffix is appended to every base
AlwaysAppend(base, suffix) == base \o suffix

\* "if base.endswith(suffix): return base" and the return after it
WithSuffix(base, suffix) == IF EndsWith(base, suffix) THEN base ELSE base \o suffix

\* faulty variant: the aria-label is preferred to the resolved label text
NameAriaBeforeLabel(elem) ==
    LET tag == Get(elem, "tag", NoStr)
        id_val == Get(elem, "id", NoStr)
        classes == Get(elem, "class", NoStr)
        text == Strip(Get(elem, "text", NoStr))
        aria == Strip(Get(elem, "aria-label", NoStr))
        label_text == Strip(Get(elem, "label_text", NoStr))
        placeholder == Strip(Get(elem, "placeholder", NoStr))
        data == Get(elem, "data", <<>>)
        visible_name ==
            IF tag \in {T_button, T_a} /\ text # NoStr THEN text
            ELSE IF aria # NoStr THEN aria
            ELSE IF label_text # NoStr THEN label_text
            ELSE IF placeholder # NoStr /\ tag \in {T_input, T_textarea} THEN placeholder
            ELSE NoStr
        base ==
            IF visible_name # NoStr THEN _to_camel_case(visible_name)
            ELSE IF "data-test" \in DOMAIN data THEN _to_camel_case(data["data-test"])
            ELSE IF id_val # NoStr THEN _to_camel_case(id_val)
            ELSE IF classes # NoStr THEN _to_camel_case(FirstBySpace(classes))
            ELSE _to_camel_case(tag)
        suffix == NameSuffix(tag)
    IN  WithSuffix(base, suffix)

_guess_custom_name(elem) ==
    LET tag == Get(elem, "tag", NoStr)
        id_val == Get(elem, "id", NoStr)
        classes == Get(elem, "class", NoStr)
        text == Strip(Get(elem, "text", NoStr))
        aria == Strip(Get(elem, "aria-label", NoStr))
        label_text == Strip(Get(elem, "label_text", NoStr))
        placeholder == Strip(Get(elem, "placeholder", NoStr))
        data == Get(elem, "data", <<>>)
        visible_name ==
            IF tag \in {T_button, T_a} /\ text # NoStr THEN text
            ELSE IF label_text # NoStr THEN label_text
            ELSE IF aria # NoStr THEN aria
            ELSE IF placeholder # NoStr /\ tag \in {T_input, T_textarea} THEN placeholder
            ELSE NoStr
        base ==
            IF visible_name # NoStr THEN _to_camel_case(visible_name)
            ELSE IF "data-test" \in DOMAIN data THEN _to_camel_case(data["data-test"])
            ELSE IF id_val # NoStr THEN _to_camel_case(id_val)
            ELSE IF classes # NoStr THEN _to_camel_case(FirstBySpace(classes))
            ELSE _to_camel_case(tag)
        suffix == NameSuffix(tag)
    IN  WithSuffix(base, suffix)

\* ------------------------------------------------------------------------
\* dom_scanner.py: the locator candidate builders
\* ------------------------------------------------------------------------
\* faulty variant: the count starts one too high
CountOffByOne(elements, key, v) ==
    Cardinality({k \in 1..Len(elements) : Get(elements[k], key, NoStr) = v}) + 1

\* faulty variant: a value is counted once however often it occurs
CountOnce(elements, key, v) ==
    IF \E k \in 1..Len(elements) : Get(elements[k], key, NoStr) = v THEN 1 ELSE 0

\* id_counts / name_counts of generate_locators_from_elements: the number of
\* elements that carry the value under the key (0 for a value never seen,
\* as id_counts.get(v, 0) gives)
CountOf(elements, key, v) ==
    Cardinality({k \in 1..Len(elements) : Get(elements[k], key, NoStr) = v})

_css_selector_for(elem, elements) ==
    LET tag == Get(elem, "tag", NoStr)
        elem_id == Get(elem, "id", NoStr)
        classes == Get(elem, "class", NoStr)
        data == Get(elem, "data", <<>>)
        first_class == FirstBySpace(classes)
    IN  IF elem_id # NoStr /\ CountOf(elements, "id", elem_id) = 1
        THEN [selector |-> <<"#">> \o elem_id, stability |-> "High", type |-> "CSS Selector"]
        ELSE IF "data-test" \in DOMAIN data
        THEN [selector |-> <<"[","d","a","t","a","-","t","e","s","t","=","'">>
                           \o EscapeQuote(data["data-test"]) \o <<"'","]">>,
              stability |-> "High", type |-> "CSS Selector"]
        ELSE IF classes # NoStr /\ first_class # NoStr
        THEN [selector |-> <<"[","c","l","a","s","s","*","=","'">>
                           \o EscapeQuote(first_class) \o <<"'","]">>,
              stability |-> "Medium", type |-> "CSS Selector"]
        ELSE [selector |-> IF tag # NoStr THEN tag ELSE <<"*">>,
              stability |-> "Low", type |-> "CSS Selector"]

\* tags whose element the HTML parser closes at once: text written after the
\* start tag is not the element's text
VoidTags == {T_input}

\* the soup generate_locators_from_elements rebuilds from the records: one
\* fragment per element with its id, its class and its text
SoupNode(e) ==
    LET tag == Get(e, "tag", T_div)
    IN  [tag |-> tag,
         id |-> Get(e, "id", NoStr),
         has_class |-> Get(e, "class", NoStr) # NoStr,
         class |-> Strip(CollapseSpace(Get(e, "class", NoStr))),
         text |-> IF tag \in VoidTags THEN NoStr ELSE _normalize_text(Get(e, "text", NoStr))]

RebuildSoup(elements) == [k \in 1..Len(elements) |-> SoupNode(elements[k])]

\* the loop of _xpath_selector_for over soup.find_all(tag): the count of the
\* first same-tag node whose id, class and text equal the element's; 1 when
\* none does
XPathIndex(elem, soup) ==
    LET tag == Get(elem, "tag", NoStr)
        same == FindAll(soup, tag)
        hit(k) == /\ same[k].id = Get(elem, "id", NoStr)
                  /\ same[k].has_class /\ "class" \in DOMAIN elem
                  /\ same[k].class = Get(elem, "class", NoStr)
                  /\ same[k].text = Get(elem, "text", NoStr)
        hits == {k \in 1..Len(same) : hit(k)}
    IN  IF hits = {} THEN 1 ELSE CHOOSE k \in hits : \A j \in hits : k <= j

_xpath_selector_for(elem, soup) ==
    LET tag == Get(elem, "tag", NoStr)
        text == Strip(Get(elem, "text", NoStr))
    IN  IF /\ tag # NoStr /\ text # NoStr /\ Len(text) <= 60
           /\ ~Contains(text, <<"\n">>) /\ ~Contains(text, <<"'">>)
        THEN [selector |-> <<"/","/">> \o tag \o <<"[","t","e","x","t","(",")","=","'">>
                           \o text \o <<"'","]">>,
              stability |-> "Medium", type |-> "XPath"]
        ELSE IF tag # NoStr
        THEN [selector |-> <<"/","/">> \o tag \o <<"[">>
                           \o IntToStr(XPathIndex(elem, soup)) \o <<"]">>,
              stability |-> "Low", type |-> "XPath"]
        ELSE [selector |-> <<"/","/","*">>, stability |-> "Low", type |-> "XPath"]

\* the value the builder returns when it emits nothing (Python None)
NoLocator == [type |-> "None"]

\* faulty variant: every input is given the textbox role, whatever its type
RoleForAnyInput(elem) ==
    LET tag == Get(elem, "tag", NoStr)
        role == Get(elem, "role", NoStr)
        text == Strip(Get(elem, "text", NoStr))
        aria_label == Get(elem, "aria-label", NoStr)
        inferred_role ==
            IF role # NoStr THEN role
            ELSE IF tag = T_a THEN <<"l","i","n","k">>
            ELSE IF tag = T_button THEN T_button
            ELSE IF tag = T_input THEN <<"t","e","x","t","b","o","x">>
            ELSE NoStr
        name == Strip(IF aria_label # NoStr THEN aria_label ELSE text)
    IN  IF inferred_role # NoStr /\ name # NoStr
        THEN [selector |-> <<"p","a","g","e",".","g","e","t","B","y","R","o","l","e","(","'">>
                           \o inferred_role \o <<"'",","," ","{"," ","n","a","m","e",":"," ","'">>
                           \o EscapeQuote(name) \o <<"'"," ","}",")">>,
              stability |-> "High", type |-> "Role Selector"]
        ELSE IF tag \in {T_a, T_button} /\ text # NoStr
        THEN [selector |-> <<"p","a","g","e",".","g","e","t","B","y","T","e","x","t","(","'">>
                           \o EscapeQuote(text) \o <<"'",")">>,
              stability |-> "Medium", type |-> "Text Selector"]
        ELSE NoLocator

_playwright_role_selector_for(elem) ==
    LET tag == Get(elem, "tag", NoStr)
        role == Get(elem, "role", NoStr)
        text == Strip(Get(elem, "text", NoStr))
        aria_label == Get(elem, "aria-label", NoStr)
        inferred_role ==
            IF role # NoStr THEN role
            ELSE IF tag = T_a THEN <<"l","i","n","k">>
            ELSE IF tag = T_button THEN T_button
            ELSE IF tag = T_input
                 THEN IF Get(elem, "type", NoStr) \in {NoStr, S_text, S_search, S_email, S_password}
                      THEN <<"t","e","x","t","b","o","x">> ELSE NoStr
            ELSE NoStr
        name == Strip(IF aria_label # NoStr THEN aria_label ELSE text)
    IN  IF inferred_role # NoStr /\ name # NoStr
        THEN [selector |-> <<"p","a","g","e",".","g","e","t","B","y","R","o","l","e","(","'">>
                           \o inferred_role \o <<"'",","," ","{"," ","n","a","m","e",":"," ","'">>
                           \o EscapeQuote(name) \o <<"'"," ","}",")">>,
              stability |-> "High", type |-> "Role Selector"]
        ELSE IF tag \in {T_a, T_button} /\ text # NoStr
        THEN [selector |-> <<"p","a","g","e",".","g","e","t","B","y","T","e","x","t","(","'">>
                           \o EscapeQuote(text) \o <<"'",")">>,
              stability |-> "Medium", type |-> "Text Selector"]
        ELSE NoLocator

\* ------------------------------------------------------------------------
\* dom_scanner.py: the stability scorer
\* ------------------------------------------------------------------------
\* locator_type.lower() for the types the builders produce
LowerType(t) ==
    CASE t = "CSS Selector" -> "css selector"
      [] t = "XPath" -> "xpath"
      [] t = "Role Selector" -> "role selector"
      [] t = "Text Selector" -> "text selector"
      [] t = "ID" -> "id"
      [] OTHER -> t

\* "role" in lt, "role selector" in lt, "text selector" in lt
HasRoleWord(lt) == lt = "role selector"
\* faulty variant: the text selector is never recognized
NeverTextSelector(lt) == FALSE

HasTextSelector(lt) == lt = "text selector"

At(s, k) == IF k \in 1..Len(s) THEN s[k] ELSE "none"

\* re.search(r"//[a-zA-Z]+\[\d+\]", val)
IndexedPattern(val) ==
    \E i \in 1..Len(val) :
        /\ At(val, i) = "/" /\ At(val, i + 1) = "/"
        /\ \E j \in (i + 3)..Len(val) :
              /\ At(val, j) = "["
              /\ \A m \in (i + 2)..(j - 1) : IsLetter(val[m])
              /\ \E k \in (j + 2)..Len(val) :
                    /\ At(val, k) = "]"
                    /\ \A m \in (j + 1)..(k - 1) : IsDigit(val[m])

\* faulty variant: XPath is taken to run under both frameworks
ToolWithoutXPathRule(locator_type) ==
    LET lt == LowerType(locator_type)
    IN  IF HasRoleWord(lt) \/ HasTextSelector(lt) THEN "Playwright" ELSE "Both"

_automation_tool_for(locator_type) ==
    LET lt == LowerType(locator_type)
    IN  IF HasRoleWord(lt) \/ HasTextSelector(lt) THEN "Playwright"
        ELSE IF lt = "css selector" THEN "Both"
        ELSE IF lt = "xpath" THEN "Selenium"
        ELSE "Both"

_label_from_score(score) ==
    IF score >= 8 THEN "High"
    ELSE IF score >= 5 THEN "Medium"
    ELSE "Low"

Min(a, b) == IF a < b THEN a ELSE b
Max(a, b) == IF a > b THEN a ELSE b

\* the elif chain of _compute_stability_score, before the text-selector rule
\* and the penalty
ScoreByRule(elem, lt, val, elements) ==
    LET elem_id == Get(elem, "id", NoStr)
        data == Get(elem, "data", <<>>)
        role == Get(elem, "role", NoStr)
        aria == Get(elem, "aria-label", NoStr)
        name == Strip(IF aria # NoStr THEN aria ELSE Get(elem, "text", NoStr))
        classes == Strip(Get(elem, "class", NoStr))
    IN  IF /\ elem_id # NoStr /\ CountOf(elements, "id", elem_id) = 1
           /\ lt = "css selector" /\ StartsWith(val, <<"#">>)
        THEN 10
        ELSE IF (\E k \in {"data-testid", "data-test"} : k \in DOMAIN data) /\ lt = "css selector"
        THEN 9
        ELSE IF lt = "role selector" /\ role # NoStr /\ name # NoStr
        THEN 9
        ELSE IF lt = "xpath"
        THEN LET s1 == IF Contains(val, <<"t","e","x","t","(",")","=">>) THEN 6 ELSE 5
             IN  IF IndexedPattern(val) THEN Min(s1, 2) ELSE s1
        ELSE IF lt = "css selector"
        THEN IF \/ StartsWith(val, <<"[","c","l","a","s","s","*">>)
                \/ (classes # NoStr /\ elem_id = NoStr /\ data = <<>>)
             THEN 6
             ELSE IF val \in {Get(elem, "tag", NoStr), <<"*">>} THEN 3
             ELSE 5
        ELSE 5

\* faulty variant: the penalty is never applied
NoPenalty(elem) == FALSE

\* "if not any([elem_id, data, role, elem.get('name'), elem.get('aria-label')])"
LacksSemantics(elem) ==
    /\ Get(elem, "id", NoStr) = NoStr
    /\ Get(elem, "data", <<>>) = <<>>
    /\ Get(elem, "role", NoStr) = NoStr
    /\ Get(elem, "name", NoStr) = NoStr
    /\ Get(elem, "aria-label", NoStr) = NoStr

\* faulty variant: the penalty takes two points and nothing is clamped
ScoreUnclamped(elem, locator_type, locator_value, elements) ==
    LET lt == LowerType(locator_type)
        s1 == ScoreByRule(elem, lt, locator_value, elements)
        s2 == IF HasTextSelector(lt) THEN 6 ELSE s1
    IN  IF LacksSemantics(elem) THEN s2 - 2 ELSE s2

_compute_stability_score(elem, locator_type, locator_value, elements) ==
    LET lt == LowerType(locator_type)
        s1 == ScoreByRule(elem, lt, locator_value, elements)
        s2 == IF HasTextSelector(lt) THEN 6 ELSE s1
        s3 == IF LacksSemantics(elem) THEN Max(1, s2 - 1) ELSE s2
    IN  Max(1, Min(10, s3))

\* ------------------------------------------------------------------------
\* dom_scanner.py: duplicate and dynamic-value warnings
\* ------------------------------------------------------------------------
IsHex(c) == IsDigit(c) \/ c \in {"a","b","c","d","e","f","A","B","C","D","E","F"}

\* uuid_regex.match(v): 8-4-4-4-12 hexadecimal digits
UuidMatch(v) ==
    /\ Len(v) = 36
    /\ \A k \in 1..36 : IF k \in {9, 14, 19, 24} THEN v[k] = "-" ELSE IsHex(v[k])

\* long_digits_regex.search(v): r"\d{5,}"
LongDigits(v) == \E i \in 1..(Len(v) - 4) : \A m \in i..(i + 4) : IsDigit(v[m])

\* timestamp_like_regex.search(v): r"20\d{2}[\-_/]?\d{2}[\-_/]?\d{2}"
TimestampLike(v) ==
    \E i \in 1..Len(v) : \E a \in {0, 1} : \E b \in {0, 1} :
        /\ At(v, i) = "2" /\ At(v, i + 1) = "0"
        /\ IsDigit(At(v, i + 2)) /\ IsDigit(At(v, i + 3))
        /\ (a = 1 => At(v, i + 4) \in {"-", "_", "/"})
        /\ IsDigit(At(v, i + 4 + a)) /\ IsDigit(At(v, i + 5 + a))
        /\ (b = 1 => At(v, i + 6 + a) \in {"-", "_", "/"})
        /\ IsDigit(At(v, i + 6 + a + b)) /\ IsDigit(At(v, i + 7 + a + b))

\* re.search(r"[A-Za-z]+\d+[A-Za-z\d]{3,}", v): a letter, a digit and three
\* more letters or digits in a row
MixedRun(v) ==
    \E i \in 1..Len(v) :
        /\ IsLetter(At(v, i)) /\ IsDigit(At(v, i + 1))
        /\ IsAlnum(At(v, i + 2)) /\ IsAlnum(At(v, i + 3)) /\ IsAlnum(At(v, i + 4))

looks_dynamic(value) ==
    LET v == Strip(value)
    IN  v # NoStr /\ (UuidMatch(v) \/ LongDigits(v) \/ TimestampLike(v) \/ MixedRun(v))

\* eclass.split(): the whitespace-separated tokens
RECURSIVE SplitTokens(_)
SplitTokens(s) ==
    LET t == LStrip(s)
        RECURSIVE Word(_)
        Word(u) == IF u = <<>> \/ IsSpace(Head(u)) THEN <<>> ELSE <<Head(u)>> \o Word(Tail(u))
    IN  IF t = <<>> THEN <<>>
        ELSE <<Word(t)>> \o SplitTokens(SubSeq(t, Len(Word(t)) + 1, Len(t)))

W_DupId == "Duplicate id detected"
W_DupName == "Duplicate name detected"
W_DynId == "id appears dynamic (contains UUID/long digits/timestamp)"
W_DynClass == "class token appears dynamic"
W_DynName == "name appears dynamic"

\* faulty variant: the dynamic-id warning is appended before the duplicate
\* warnings
WarningsDynamicFirst(elem, elements) ==
    LET eid == Get(elem, "id", NoStr)
        ename == Get(elem, "name", NoStr)
        eclass == Get(elem, "class", NoStr)
        dupId == eid # NoStr /\ CountOf(elements, "id", eid) > 1
        dupName == ename # NoStr /\ CountOf(elements, "name", ename) > 1
        dynId == eid # NoStr /\ looks_dynamic(eid)
        tokens == SplitTokens(eclass)
        dynClass == eclass # NoStr /\ \E k \in 1..Len(tokens) : looks_dynamic(tokens[k])
        dynName == ename # NoStr /\ looks_dynamic(ename)
    IN  [dynamic |-> dynId \/ dynClass \/ dynName,
         duplicate |-> dupId \/ dupName,
         warnings |-> (IF dynId THEN <<W_DynId>> ELSE <<>>)
                      \o (IF dupId THEN <<W_DupId>> ELSE <<>>)
                      \o (IF dupName THEN <<W_DupName>> ELSE <<>>)
                      \o (IF dynClass THEN <<W_DynClass>> ELSE <<>>)
                      \o (IF dynName THEN <<W_DynName>> ELSE <<>>)]

analyze_element_warnings(elem, elements) ==
    LET eid == Get(elem, "id", NoStr)
        ename == Get(elem, "name", NoStr)
        eclass == Get(elem, "class", NoStr)
        dupId == eid # NoStr /\ CountOf(elements, "id", eid) > 1
        dupName == ename # NoStr /\ CountOf(elements, "name", ename) > 1
        dynId == eid # NoStr /\ looks_dynamic(eid)
        tokens == SplitTokens(eclass)
        dynClass == eclass # NoStr /\ \E k \in 1..Len(tokens) : looks_dynamic(tokens[k])
        dynName == ename # NoStr /\ looks_dynamic(ename)
    IN  [dynamic |-> dynId \/ dynClass \/ dynName,
         duplicate |-> dupId \/ dupName,
         warnings |-> (IF dupId THEN <<W_DupId>> ELSE <<>>)
                      \o (IF dupName THEN <<W_DupName>> ELSE <<>>)
                      \o (IF dynId THEN <<W_DynId>> ELSE <<>>)
                      \o (IF dynClass THEN <<W_DynClass>> ELSE <<>>)
                      \o (IF dynName THEN <<W_DynName>> ELSE <<>>)]

\* ------------------------------------------------------------------------
\* dom_scanner.py: generate_locators_from_elements and compute_summary
\* ------------------------------------------------------------------------
\* faulty variant: the builder's hint is kept as the final label
KeepHint(hint, score) == hint

\* entry["stability"] = _label_from_score(score): the label written last
FinalStability(hint, score) == _label_from_score(score)

\* one output entry: the builder's result, scored and labelled
MakeEntry(custom_name, info, elem, w, elements) ==
    LET score == _compute_stability_score(elem, info.type, info.selector, elements)
    IN  [custom_name |-> custom_name,
         locator_type |-> info.type,
         locator_value |-> info.selector,
         stability |-> FinalStability(Get(info, "stability", "None"), score),
         stability_score |-> score,
         automation_tool |-> _automation_tool_for(info.type),
         dynamic |-> w.dynamic,
         duplicate |-> w.duplicate,
         warnings |-> w.warnings]

\* faulty variant: the XPath entry of an element is appended before its CSS
\* entry
EntriesXPathFirst(e, elements) ==
    LET custom_name == _guess_custom_name(e)
        w == analyze_element_warnings(e, elements)
        soup == RebuildSoup(elements)
        css_info == _css_selector_for(e, elements)
        xpath_info == _xpath_selector_for(e, soup)
        pw == _playwright_role_selector_for(e)
    IN  <<MakeEntry(custom_name, xpath_info, e, w, elements),
          MakeEntry(custom_name, css_info, e, w, elements)>>
        \o (IF pw # NoLocator THEN <<MakeEntry(custom_name, pw, e, w, elements)>> ELSE <<>>)

\* the body of the "for e in elements" loop: the entries of one element
EntriesOf(e, elements) ==
    LET custom_name == _guess_custom_name(e)
        w == analyze_element_warnings(e, elements)
        soup == RebuildSoup(elements)
        css_info == _css_selector_for(e, elements)
        xpath_info == _xpath_selector_for(e, soup)
        pw == _playwright_role_selector_for(e)
    IN  <<MakeEntry(custom_name, css_info, e, w, elements),
          MakeEntry(custom_name, xpath_info, e, w, elements)>>
        \o (IF pw # NoLocator THEN <<MakeEntry(custom_name, pw, e, w, elements)>> ELSE <<>>)

RECURSIVE GenerateFrom(_, _)
GenerateFrom(k, elements) ==
    IF k > Len(elements) THEN <<>>
    ELSE EntriesOf(elements[k], elements) \o GenerateFrom(k + 1, elements)

generate_locators_from_elements(elements) == GenerateFrom(1, elements)

\* faulty variant: the types are compared as written, without lower-casing
CountTypesAsWritten(locs, types) ==
    Cardinality({k \in 1..Len(locs) : locs[k].locator_type \in types})

\* the counters of compute_summary: the locators whose lower-cased type is
\* one of the given, and those whose field holds the given value
CountTypes(locs, types) ==
    Cardinality({k \in 1..Len(locs) : LowerType(locs[k].locator_type) \in types})
CountField(locs, field, value) ==
    Cardinality({k \in 1..Len(locs) : locs[k][field] = value})

compute_summary(locs, total_elements) ==
    [total_elements |-> total_elements,
     locator_distribution |->
        [css |-> CountTypes(locs, {"css selector"}),
         xpath |-> CountTypes(locs, {"xpath"}),
         role |-> CountTypes(locs, {"role selector", "text selector"})],
     framework_split |->
        [playwright |-> CountField(locs, "automation_tool", "Playwright"),
         selenium |-> CountField(locs, "automation_tool", "Selenium"),
         both |-> CountField(locs, "automation_tool", "Both")],
     stability |->
        [high |-> CountField(locs, "stability", "High"),
         medium |-> CountField(locs, "stability", "Medium"),
         low |-> CountField(locs, "stability", "Low")]]

\* ------------------------------------------------------------------------
\* page_object_exporter.py: the best-per-name selection
\* ------------------------------------------------------------------------
_prefer_order_playwright(locator_type) ==
    CASE locator_type = "Role Selector" -> 0
      [] locator_type = "CSS Selector" -> 1
      [] locator_type = "Text Selector" -> 2
      [] locator_type = "XPath" -> 3
      [] OTHER -> 9

_prefer_order_selenium(locator_type) ==
    CASE locator_type = "CSS Selector" -> 0
      [] locator_type = "XPath" -> 1
      [] OTHER -> 9

PreferOrder(framework, locator_type) ==
    IF framework = "playwright" THEN _prefer_order_playwright(locator_type)
    ELSE _prefer_order_selenium(locator_type)

S_Element == <<"E","l","e","m","e","n","t">>

\* name = loc.get("custom_name") or "Element"
NameKey(loc) == IF loc.custom_name # NoStr THEN loc.custom_name ELSE S_Element

\* faulty variant: only the playwright filter is applied
CompatiblePlaywrightOnly(loc, framework) ==
    ~(framework = "playwright" /\ loc.automation_tool \notin {"Playwright", "Both"})

\* the two "continue" filters on automation_tool
Compatible(loc, framework) ==
    /\ ~(framework = "playwright" /\ loc.automation_tool \notin {"Playwright", "Both"})
    /\ ~(framework = "selenium" /\ loc.automation_tool \notin {"Selenium", "Both"})

\* faulty variant: a candidate of equal score always replaces the current best
ReplacesOnTie(loc, curr, framework) == loc.stability_score >= curr.stability_score

\* whether the candidate replaces the current best of its name
Replaces(loc, curr, framework) ==
    \/ loc.stability_score > curr.stability_score
    \/ /\ loc.stability_score = curr.stability_score
       /\ PreferOrder(framework, loc.locator_type) < PreferOrder(framework, curr.locator_type)

\* one iteration of the loop of _select_best_per_name
SelectStep(best, loc, framework) ==
    LET name == NameKey(loc)
    IN  IF ~Compatible(loc, framework) THEN best
        ELSE IF name \notin DOMAIN best \/ Replaces(loc, best[name], framework)
        THEN [n \in DOMAIN best \cup {name} |-> IF n = name THEN loc ELSE best[n]]
        ELSE best

RECURSIVE SelectFold(_, _, _, _)
SelectFold(best, k, locs, framework) ==
    IF k > Len(locs) THEN best
    ELSE SelectFold(SelectStep(best, locs[k], framework), k + 1, locs, framework)

_select_best_per_name(locs, framework) == SelectFold(<<>>, 1, locs, framework)

\* ------------------------------------------------------------------------
\* page_object_exporter.py: the Page Object classes
\* ------------------------------------------------------------------------
\* re.sub(r"[^a-zA-Z0-9]+", "_", name): every run of other characters
\* becomes one underscore
RECURSIVE SubNonAlnum(_)
SubNonAlnum(s) ==
    IF s = <<>> THEN <<>>
    ELSE IF IsAlnum(Head(s)) THEN <<Head(s)>> \o SubNonAlnum(Tail(s))
    ELSE IF Len(s) > 1 /\ ~IsAlnum(s[2]) THEN SubNonAlnum(Tail(s))
    ELSE <<"_">> \o SubNonAlnum(Tail(s))

\* re.sub(r"([a-z0-9])([A-Z])", r"\1_\2", name): an underscore between a
\* lower-case letter or digit and the upper-case letter after it
RECURSIVE SplitHumps(_)
SplitHumps(s) ==
    IF Len(s) < 2 THEN s
    ELSE IF (IsLower(s[1]) \/ IsDigit(s[1])) /\ IsUpper(s[2])
         THEN <<s[1], "_">> \o SplitHumps(Tail(s))
         ELSE <<s[1]>> \o SplitHumps(Tail(s))

\* str.strip("_")
RECURSIVE StripUnderscore(_)
StripUnderscore(s) ==
    IF s # <<>> /\ Head(s) = "_" THEN StripUnderscore(Tail(s))
    ELSE IF s # <<>> /\ s[Len(s)] = "_" THEN StripUnderscore(SubSeq(s, 1, Len(s) - 1))
    ELSE s

LowerStr(s) == [k \in 1..Len(s) |-> ToLowerChar(s[k])]

_to_snake_case(name) ==
    LET n1 == StripUnderscore(LowerStr(SplitHumps(SubNonAlnum(name))))
        n2 == IF n1 = <<>> THEN <<"e","l","e","m","e","n","t">> ELSE n1
    IN  IF IsDigit(n2[1]) THEN <<"e","_">> \o n2 ELSE n2

\* str.replace(old, new), left to right without overlap
RECURSIVE Replace(_, _, _)
Replace(s, old, new) ==
    IF s = <<>> THEN <<>>
    ELSE IF StartsWith(s, old) THEN new \o Replace(SubSeq(s, Len(old) + 1, Len(s)), old, new)
    ELSE <<Head(s)>> \o Replace(Tail(s), old, new)

\* lv.replace("\\", "\\\\").replace("\"", "\\\"")
EscapeForLiteral(lv) == Replace(Replace(lv, <<"\\">>, <<"\\","\\">>), <<"\"">>, <<"\\","\"">>)

\* the order of str comparison on the characters of names: code points
CodeOrder == DigitChars \o UpperLetters \o <<"_">> \o LowerLetters
RECURSIVE StrLess(_, _)
StrLess(a, b) ==
    IF b = <<>> THEN FALSE
    ELSE IF a = <<>> THEN TRUE
    ELSE IF Head(a) = Head(b) THEN StrLess(Tail(a), Tail(b))
    ELSE IndexIn(Head(a), CodeOrder) < IndexIn(Head(b), CodeOrder)

\* sorted(best.items()): the names in ascending order
RECURSIVE SortedKeys(_)
SortedKeys(S) ==
    IF S = {} THEN <<>>
    ELSE LET least == CHOOSE x \in S : \A y \in S \ {x} : StrLess(x, y)
         IN  <<least>> \o SortedKeys(S \ {least})

\* one "self.<var> = <expression>" line of generate_playwright_pom; the
\* expression is the text before the value, the value, the text after it
PlaywrightHandle(custom_name, loc) ==
    LET lt == loc.locator_type
        lv == loc.locator_value
    IN  [var |-> _to_snake_case(custom_name),
         expr |-> IF lt \in {"Role Selector", "Text Selector"}
                  THEN <<"", Replace(lv, <<".","c","l","i","c","k","(",")">>, <<>>), "">>
                  ELSE IF lt = "XPath"
                  THEN <<"page.locator(\"xpath=", EscapeForLiteral(lv), "\")">>
                  ELSE <<"page.locator(\"", EscapeForLiteral(lv), "\")">>]

SeleniumHandle(custom_name, loc) ==
    LET lt == loc.locator_type
        lv == loc.locator_value
    IN  [var |-> _to_snake_case(custom_name),
         expr |-> IF lt = "XPath"
                  THEN <<"driver.find_element(By.XPATH, \"", EscapeForLiteral(lv), "\")">>
                  ELSE <<"driver.find_element(By.CSS_SELECTOR, \"", EscapeForLiteral(lv), "\")">>]

\* the text of a Page Object class: its import line, its class name, the
\* parameter of __init__ and the handle lines in their order
generate_playwright_pom(locs, class_name) ==
    LET best_of == _select_best_per_name(locs, "playwright")
        names == SortedKeys(DOMAIN best_of)
    IN  [import |-> "from playwright.sync_api import Page",
         class_name |-> class_name,
         init |-> "def __init__(self, page: Page):",
         handles |-> [k \in 1..Len(names) |-> PlaywrightHandle(names[k], best_of[names[k]])]]

generate_selenium_pom(locs, class_name) ==
    LET best_of == _select_best_per_name(locs, "selenium")
        names == SortedKeys(DOMAIN best_of)
    IN  [import |-> "from selenium.webdriver.common.by import By",
         class_name |-> class_name,
         init |-> "def __init__(self, driver):",
         handles |-> [k \in 1..Len(names) |-> SeleniumHandle(names[k], best_of[names[k]])]]

\* ------------------------------------------------------------------------
\* core.py: generate_locators_from_dom
\* ------------------------------------------------------------------------
\* str.lower() on the words passed as frameworks and stability labels
Lower(s) ==
    CASE s \in {"High", "HIGH", "high"} -> "high"
      [] s \in {"Medium", "MEDIUM", "medium"} -> "medium"
      [] s \in {"Low", "LOW", "low"} -> "low"
      [] s \in {"Playwright", "PLAYWRIGHT", "playwright"} -> "playwright"
      [] s \in {"Selenium", "SELENIUM", "selenium"} -> "selenium"
      [] OTHER -> s

\* STABILITY_ORDER.get(label, 1)
STABILITY_ORDER(label) ==
    CASE label = "low" -> 1
      [] label = "medium" -> 2
      [] label = "high" -> 3
      [] OTHER -> 1

\* faulty variant: a locator at the threshold is dropped
FilterAboveThreshold(locs, min_label) ==
    IF min_label = "" THEN locs
    ELSE SelectSeq(locs, LAMBDA loc :
            STABILITY_ORDER(Lower(loc.stability)) > STABILITY_ORDER(Lower(min_label)))

\* step 3 of generate_locators_from_dom (and _filter_by_min_stability of
\* smart_locator_ai.py, the same loop); "" stands for None and ""
_filter_by_min_stability(locs, min_label) ==
    IF min_label = "" THEN locs
    ELSE SelectSeq(locs, LAMBDA loc :
            STABILITY_ORDER(Lower(loc.stability)) >= STABILITY_ORDER(Lower(min_label)))

\* frameworks = [f.lower() for f in frameworks], after the default for None
NormalizeFrameworks(fw) ==
    LET given == IF fw.none THEN <<"Playwright", "Selenium">> ELSE fw.list
    IN  [k \in 1..Len(given) |-> Lower(given[k])]

InList(x, s) == \E k \in 1..Len(s) : s[k] = x

\* the files of step 6 and the paths returned: file name -> content and
\* result key -> file name
PlaywrightFile(class_name) == <<class_name, "_Playwright.py">>
SeleniumFile(class_name) == <<class_name, "_Selenium.py">>
JsonFile == <<"locators.json">>
PageFile == <<"page.py">>

\* the function f with f[k] = v added or overwritten
Put(f, k, v) == [x \in DOMAIN f \cup {k} |-> IF x = k THEN v ELSE f[x]]

\* faulty variant: page.py is written whenever a Page Object is
AnySingle(fws) == TRUE

\* "if len(frameworks) == 1"
IsSingle(fws) == Len(fws) = 1

\* steps 6a and 6b: the pair <<files, result_paths>>
WriteOutputs(locs, total_elements, fws, min_label, class_name) ==
    LET payload == [metadata |-> [total_elements |-> total_elements,
                                  total_locators |-> Len(locs),
                                  frameworks |-> fws,
                                  min_stability |-> IF min_label = "" THEN "None" ELSE min_label,
                                  class_name |-> class_name],
                    summary |-> compute_summary(locs, total_elements),
                    locators |-> locs]
        f0 == Put(<<>>, JsonFile, payload)
        r0 == Put(<<>>, "locators_json", JsonFile)
        pw_code == generate_playwright_pom(locs, class_name)
        hasPw == InList("playwright", fws)
        f1 == IF hasPw THEN Put(f0, PlaywrightFile(class_name), pw_code) ELSE f0
        r1 == IF hasPw THEN Put(r0, "playwright_pom", PlaywrightFile(class_name)) ELSE r0
        f2 == IF hasPw /\ IsSingle(fws) THEN Put(f1, PageFile, pw_code) ELSE f1
        r2 == IF hasPw /\ IsSingle(fws) THEN Put(r1, "page_py", PageFile) ELSE r1
        se_code == generate_selenium_pom(locs, class_name)
        hasSe == InList("selenium", fws)
        f3 == IF hasSe THEN Put(f2, SeleniumFile(class_name), se_code) ELSE f2
        r3 == IF hasSe THEN Put(r2, "selenium_pom", SeleniumFile(class_name)) ELSE r2
        f4 == IF hasSe /\ IsSingle(fws) THEN Put(f3, PageFile, se_code) ELSE f3
        r4 == IF hasSe /\ IsSingle(fws) THEN Put(r3, "page_py", PageFile) ELSE r3
    IN  <<f4, r4>>

\* ------------------------------------------------------------------------
\* The program state
\* ------------------------------------------------------------------------
VARIABLES
    document,   \* the parsed input document (nodes in document order)
    pc,         \* the position of the run
    entry,      \* how the elements were obtained: "scan" or "direct"
    rerun,      \* TRUE in the second run of the program on the same document
    elements,   \* the element records handed to the generator
    locators,   \* the candidate list
    summary,    \* the record compute_summary returned
    prev,       \* the candidate list of the first run
    framework,  \* the target framework of the best-per-name selection
    best,       \* the result of _select_best_per_name
    call,       \* the arguments of the entry point that is called
    ret,        \* what the entry point returned
    files       \* the output directory: file name -> content

vars == <<document, pc, entry, rerun, elements, locators, summary, prev, framework, best,
          call, ret, files>>

\* the state of an entry point that has not been called
NoCall == [fn |-> "none"]
NoRet == [fn |-> "none"]
NoFiles == <<>>

Init ==
    /\ IsDocument(document)
    /\ pc = "start"
    /\ entry = "none"
    /\ rerun = FALSE
    /\ elements = <<>>
    /\ locators = <<>>
    /\ summary = <<>>
    /\ prev = <<>>
    /\ framework = "none"
    /\ best = <<>>
    /\ call = NoCall
    /\ ret = NoRet
    /\ files = NoFiles

\* scan_dom on the document string: the interpreter's hash seed fixes the
\* order in which INTERACTABLE_TAGS is walked
ScanDom ==
    /\ pc = "start"
    /\ entry \in {"none", "scan"}
    /\ \E soup \in {ParseHtml(document)} :
       \E tagOrder \in TagOrders(soup) :
          elements' = extract_interactable_elements(soup, tagOrder)
    /\ entry' = "scan"
    /\ pc' = "scanned"
    /\ UNCHANGED <<document, rerun, locators, summary, prev, framework, best, call, ret, files>>

\* a caller that hands its own records to generate_locators_from_elements
\* (as the tests do): one record per node, whatever its tag
CallWithElements ==
    /\ pc = "start"
    /\ entry = "none"
    /\ elements' = MapRecords(ParseHtml(document))
    /\ entry' = "direct"
    /\ pc' = "scanned"
    /\ UNCHANGED <<document, rerun, locators, summary, prev, framework, best, call, ret, files>>

\* faulty variant: the call fills in a default text on the records it reads
ElementsWithDefaults(elems) ==
    [k \in 1..Len(elems) |->
        [key \in DOMAIN elems[k] \cup {"text"} |-> Get(elems[k], key, NoStr)]]

\* the caller's list once generate_locators_from_elements has returned: the
\* function reads the records through elem.get and assigns to none of them
ElementsAfterGenerate(elems) == elems

Generate ==
    /\ pc = "scanned"
    /\ locators' = generate_locators_from_elements(elements)
    /\ elements' = ElementsAfterGenerate(elements)
    /\ pc' = "generated"
    /\ UNCHANGED <<document, entry, rerun, summary, prev, framework, best, call, ret, files>>

Summarize ==
    /\ pc = "generated"
    /\ summary' = compute_summary(locators, Len(elements))
    /\ pc' = "summarized"
    /\ UNCHANGED <<document, entry, rerun, elements, locators, prev, framework, best, call, ret, files>>

\* the program is started again on the same document string
Restart ==
    /\ pc = "summarized"
    /\ entry = "scan"
    /\ ~rerun
    /\ prev' = locators
    /\ rerun' = TRUE
    /\ pc' = "start"
    /\ elements' = <<>>
    /\ locators' = <<>>
    /\ summary' = <<>>
    /\ UNCHANGED <<document, entry, framework, best, call, ret, files>>

Next == ScanDom \/ CallWithElements \/ Generate \/ Summarize \/ Restart

Spec == Init /\ [][Next]_vars

\* ------------------------------------------------------------------------
\* _select_best_per_name on candidate lists in any order
\* ------------------------------------------------------------------------
Frameworks == {"playwright", "selenium"}
LocatorTypes == {"CSS Selector", "XPath", "Role Selector", "Text Selector"}

Candidate(name, type, score) ==
    [custom_name |-> name, locator_type |-> type, locator_value |-> <<"v">>,
     stability |-> _label_from_score(score), stability_score |-> score,
     automation_tool |-> _automation_tool_for(type),
     dynamic |-> FALSE, duplicate |-> FALSE, warnings |-> <<>>]

Candidates ==
    {Candidate(name, type, score) :
        name \in {NoStr, <<"A">>}, type \in LocatorTypes, score \in {6, 9}}

InitSelect ==
    /\ document = <<>>
    /\ pc = "select"
    /\ entry = "none"
    /\ rerun = FALSE
    /\ elements = <<>>
    /\ \E n \in 0..MaxLocs : locators \in [1..n -> Candidates]
    /\ summary = <<>>
    /\ prev = <<>>
    /\ framework \in Frameworks
    /\ best = <<>>
    /\ call = NoCall
    /\ ret = NoRet
    /\ files = NoFiles

SelectBest ==
    /\ pc = "select"
    /\ best' = _select_best_per_name(locators, framework)
    /\ pc' = "selected"
    /\ UNCHANGED <<document, entry, rerun, elements, locators, summary, prev, framework, call, ret, files>>

NextSelect == SelectBest

SpecSelect == InitSelect /\ [][NextSelect]_vars

\* ------------------------------------------------------------------------
\* generate_locators_from_dom on an HTML string
\* ------------------------------------------------------------------------
\* the nodes of the documents handed to generate_locators_from_dom
CoreNodes ==
    {Node(T_a, id, NoStr, NoStr, txt, NoStr, NoStr, NoStr, NoStr, <<>>) :
        id \in {NoStr, S_go}, txt \in {NoStr, TxtOk}}
    \cup
    {Node(T_input, NoStr, NoStr, NoStr, NoStr, NoStr, NoStr, NoStr, NoStr, <<>>),
     Node(T_button, NoStr, NoStr, NoStr, TxtOk, NoStr, S_blank, NoStr, NoStr, <<>>)}

\* the frameworks argument: None, or a list of names
NoFrameworks == [none |-> TRUE, list |-> <<>>]
FrameworkList(l) == [none |-> FALSE, list |-> l]
FrameworkArgs ==
    {NoFrameworks, FrameworkList(<<>>),
     FrameworkList(<<"Playwright">>), FrameworkList(<<"SELENIUM">>),
     FrameworkList(<<"Playwright", "Selenium">>),
     FrameworkList(<<"selenium", "PLAYWRIGHT">>)}

\* the min_stability argument; "" is None
MinStabilityArgs == {"", "High", "Medium", "low"}

InitCore ==
    /\ \E n \in 0..MaxNodes : document \in [1..n -> CoreNodes]
    /\ pc = "core"
    /\ entry = "none"
    /\ rerun = FALSE
    /\ elements = <<>>
    /\ locators = <<>>
    /\ summary = <<>>
    /\ prev = <<>>
    /\ framework = "none"
    /\ best = <<>>
    /\ \E fw \in FrameworkArgs : \E m \in MinStabilityArgs :
          call = [fn |-> "generate_locators_from_dom", frameworks |-> fw,
                  min_stability |-> m, class_name |-> "Page"]
    /\ ret = NoRet
    /\ files = NoFiles

\* generate_locators_from_dom(html, frameworks, output_dir, class_name,
\* min_stability) with validate and use_gemini left at False
GenerateLocatorsFromDom ==
    /\ pc = "core"
    /\ \E soup \in {ParseHtml(document)} :
       \E tagOrder \in TagOrders(soup) :
       \E elems \in {extract_interactable_elements(soup, tagOrder)} :
       \E locs \in {_filter_by_min_stability(generate_locators_from_elements(elems),
                                             call.min_stability)} :
       \E out \in {WriteOutputs(locs, Len(elems), NormalizeFrameworks(call.frameworks),
                                call.min_stability, call.class_name)} :
          /\ elements' = elems
          /\ locators' = locs
          /\ summary' = out[1][JsonFile].summary
          /\ files' = out[1]
          /\ ret' = out[2]
    /\ pc' = "done"
    /\ UNCHANGED <<document, entry, rerun, prev, framework, best, call>>

NextCore == GenerateLocatorsFromDom

SpecCore == InitCore /\ [][NextCore]_vars

\* ------------------------------------------------------------------------
\* _compute_stability_score on element records, locator types and values in
\* any combination
\* ------------------------------------------------------------------------
ScoreElems ==
    {_element_to_record(Node(T_a, id, name, class, txt, NoStr, aria, role, NoStr, data)) :
        id \in {NoStr, S_go}, name \in {NoStr, S_q}, class \in {NoStr, S_btn},
        txt \in {NoStr, TxtOk}, aria \in {NoStr, S_Go}, role \in {NoStr, S_tab},
        data \in DataSets}

ScoreTypes == LocatorTypes \cup {"ID"}

ScoreValues ==
    {NoStr, <<"#","g","o">>, <<"[","c","l","a","s","s","*","=","'","b","t","n","'","]">>, T_a, <<"*">>,
     <<"/","/","a","[","1","]">>, <<"/","/","a","[","t","e","x","t","(",")","=","'","O","k","'","]">>, <<"/","/","h","1","[","1","]">>}

InitScore ==
    /\ document = <<>>
    /\ pc = "call"
    /\ entry = "none"
    /\ rerun = FALSE
    /\ \E e \in ScoreElems : \E type \in ScoreTypes : \E val \in ScoreValues :
          /\ call = [fn |-> "_compute_stability_score", elem |-> e,
                     locator_type |-> type, locator_value |-> val]
          /\ elements \in {<<>>, <<e>>, <<e, e>>}
    /\ locators = <<>>
    /\ summary = <<>>
    /\ prev = <<>>
    /\ framework = "none"
    /\ best = <<>>
    /\ ret = NoRet
    /\ files = NoFiles

\* _compute_stability_score(elem, locator_type, locator_value, id_counts),
\* id_counts being the counts of the ids of elements
ComputeScore ==
    /\ pc = "call"
    /\ call.fn = "_compute_stability_score"
    /\ ret' = [fn |-> call.fn,
               value |-> _compute_stability_score(call.elem, call.locator_type,
                                                  call.locator_value, elements)]
    /\ pc' = "returned"
    /\ UNCHANGED <<document, entry, rerun, elements, locators, summary, prev, framework,
                   best, call, files>>

NextScore == ComputeScore

SpecScore == InitScore /\ [][NextScore]_vars

\* ------------------------------------------------------------------------
\* _guess_custom_name on element records
\* ------------------------------------------------------------------------
\* the raw signals: some end, once camel-cased, with a tag's suffix
NameSignals ==
    {<<"O","k">>, <<"x"," ","l","i","n","k">>, <<"x","-","b","u","t","t","o","n">>, <<"i","n","p","u","t">>,
     <<"m","y"," ","s","e","l","e","c","t">>, <<"T","e","x","t","a","r","e","a">>, <<"a","n"," ","e","l","e","m","e","n","t">>}

NameTags == {T_a, T_button, T_input, T_select, T_textarea, T_h1}

NameElems ==
    {_element_to_record(
        [Node(tag, IF hasId THEN sig ELSE NoStr, NoStr, IF hasClass THEN sig ELSE NoStr,
              IF hasText /\ tag # T_input THEN sig ELSE NoStr,
              IF hasText /\ tag = T_input THEN sig ELSE NoStr,
              IF hasAria THEN sig ELSE NoStr, NoStr, NoStr,
              IF hasData THEN [k \in {"data-test"} |-> sig] ELSE <<>>)
         EXCEPT !.label = IF hasLabel THEN sig ELSE NoStr,
                !.placeholder = IF hasPlaceholder THEN sig ELSE NoStr]) :
        tag \in NameTags, sig \in NameSignals, hasId \in BOOLEAN, hasClass \in BOOLEAN,
        hasText \in BOOLEAN, hasAria \in BOOLEAN, hasData \in BOOLEAN,
        hasLabel \in BOOLEAN, hasPlaceholder \in BOOLEAN}

\* records whose signals all differ, so that the one that wins shows in the
\* name; the aria-label may be blank and the data attribute may be
\* data-testid instead of data-test
S_main == <<"m","a","i","n">>

PriorityElems ==
    {_element_to_record(
        [Node(tag, IF hasId THEN S_main ELSE NoStr, NoStr, IF hasClass THEN S_btn ELSE NoStr,
              IF hasText /\ tag # T_input THEN TxtOk ELSE NoStr,
              IF hasText /\ tag = T_input THEN TxtOk ELSE NoStr,
              aria, NoStr, NoStr,
              IF dataKey = "none" THEN <<>> ELSE [k \in {dataKey} |-> S_t])
         EXCEPT !.label = IF hasLabel THEN S_tab ELSE NoStr,
                !.placeholder = IF hasPlaceholder THEN S_q ELSE NoStr]) :
        tag \in NameTags, hasId \in BOOLEAN, hasClass \in BOOLEAN, hasText \in BOOLEAN,
        aria \in {NoStr, S_Go, S_blank}, dataKey \in {"none", "data-test", "data-testid"},
        hasLabel \in BOOLEAN, hasPlaceholder \in BOOLEAN}

InitName ==
    /\ document = <<>>
    /\ pc = "call"
    /\ entry = "none"
    /\ rerun = FALSE
    /\ elements = <<>>
    /\ locators = <<>>
    /\ summary = <<>>
    /\ prev = <<>>
    /\ framework = "none"
    /\ best = <<>>
    /\ \E e \in NameElems \cup PriorityElems : call = [fn |-> "_guess_custom_name", elem |-> e]
    /\ ret = NoRet
    /\ files = NoFiles

GuessCustomName ==
    /\ pc = "call"
    /\ call.fn = "_guess_custom_name"
    /\ ret' = [fn |-> call.fn, value |-> _guess_custom_name(call.elem)]
    /\ pc' = "returned"
    /\ UNCHANGED <<document, entry, rerun, elements, locators, summary, prev, framework,
                   best, call, files>>

NextName == GuessCustomName

SpecName == InitName /\ [][NextName]_vars

\* ------------------------------------------------------------------------
\* analyze_element_warnings on element records
\* ------------------------------------------------------------------------
\* ids: none, a plain one, a hash-like one, one with a long digit run, a UUID
S_hashId ==
    <<"f","i","e","l","d","-","8","f","1","4","e","4","5","f","c","e","e","a","1","6","7",
      "a","5","a","3","6","d","e","d","d","4","b","e","a","2","5","4","3">>
S_longDigits == <<"x","1","2","3","4","5">>
S_uuid ==
    <<"1","2","3","e","4","5","6","7","-","e","8","9","b","-","1","2","d","3","-",
      "a","4","5","6","-","4","2","6","6","1","4","1","7","4","0","0","0">>
S_dated == <<"n","2","0","2","4","-","0","1","-","0","2">>
S_twoDynamicTokens ==
    <<"c","1","2","3","4","5"," ","d","9","8","7","6","5","4">>
S_oneDynamicToken == <<"b","t","n"," ","c","1","2","3","4","5">>

WarnIds == {NoStr, S_go, S_hashId, S_longDigits, S_uuid}
WarnNames == {NoStr, S_q, S_dated}
WarnClasses == {NoStr, S_btn, S_oneDynamicToken, S_twoDynamicTokens}

WarnElems ==
    {_element_to_record(Node(T_input, id, name, class, NoStr, NoStr, NoStr, NoStr, NoStr, <<>>)) :
        id \in WarnIds, name \in WarnNames, class \in WarnClasses}

InitWarn ==
    /\ document = <<>>
    /\ pc = "call"
    /\ entry = "none"
    /\ rerun = FALSE
    /\ locators = <<>>
    /\ summary = <<>>
    /\ prev = <<>>
    /\ framework = "none"
    /\ best = <<>>
    /\ \E e \in WarnElems :
          /\ call = [fn |-> "analyze_element_warnings", elem |-> e]
          /\ \/ elements = <<e>>
             \/ \E o \in WarnElems : elements = <<e, o>>
    /\ ret = NoRet
    /\ files = NoFiles

AnalyzeElementWarnings ==
    /\ pc = "call"
    /\ call.fn = "analyze_element_warnings"
    /\ ret' = [fn |-> call.fn, value |-> analyze_element_warnings(call.elem, elements)]
    /\ pc' = "returned"
    /\ UNCHANGED <<document, entry, rerun, elements, locators, summary, prev, framework,
                   best, call, files>>

NextWarn == AnalyzeElementWarnings

SpecWarn == InitWarn /\ [][NextWarn]_vars

\* ------------------------------------------------------------------------
\* _playwright_role_selector_for on element records
\* ------------------------------------------------------------------------
RoleTags == {T_a, T_button, T_input, T_select, T_textarea, T_div}
RoleInputTypes == {NoStr, S_text, S_search, S_email, S_password, S_checkbox}

RoleElems ==
    {_element_to_record(
        Node(tag, NoStr, NoStr, NoStr,
             IF tag = T_input THEN NoStr ELSE txt,
             IF tag = T_input THEN txt ELSE NoStr,
             aria, role, type, <<>>)) :
        tag \in RoleTags, type \in RoleInputTypes, txt \in {NoStr, TxtOk, TxtQuote},
        aria \in {NoStr, S_Go, S_blank}, role \in {NoStr, S_tab}}

InitRole ==
    /\ document = <<>>
    /\ pc = "call"
    /\ entry = "none"
    /\ rerun = FALSE
    /\ elements = <<>>
    /\ locators = <<>>
    /\ summary = <<>>
    /\ prev = <<>>
    /\ framework = "none"
    /\ best = <<>>
    /\ \E e \in RoleElems : call = [fn |-> "_playwright_role_selector_for", elem |-> e]
    /\ ret = NoRet
    /\ files = NoFiles

PlaywrightRoleSelectorFor ==
    /\ pc = "call"
    /\ call.fn = "_playwright_role_selector_for"
    /\ ret' = [fn |-> call.fn, value |-> _playwright_role_selector_for(call.elem)]
    /\ pc' = "returned"
    /\ UNCHANGED <<document, entry, rerun, elements, locators, summary, prev, framework,
                   best, call, files>>

NextRole == PlaywrightRoleSelectorFor

SpecRole == InitRole /\ [][NextRole]_vars

\* ------------------------------------------------------------------------
\* locator_generator.py: LocatorGenerator.get_element_info
\* ------------------------------------------------------------------------
\* the selectors of _find_all_interactive_elements, in the order tried
InteractiveSelectors ==
    <<"button", "input", "select", "textarea", "a", "[onclick]", "[role=\"button\"]", "[tabindex]">>

\* the tag a tag selector names
SelectorTag(selector) ==
    CASE selector = "button" -> T_button
      [] selector = "input" -> T_input
      [] selector = "select" -> T_select
      [] selector = "textarea" -> T_textarea
      [] selector = "a" -> T_a
      [] selector = "div" -> T_div
      [] selector = "h1" -> T_h1
      [] OTHER -> NoStr

\* whether a node matches a selector; the nodes explored carry neither an
\* onclick nor a tabindex attribute
Matches(node, selector) ==
    CASE selector = "[role=\"button\"]" -> node.role = T_button
      [] selector \in {"[onclick]", "[tabindex]"} -> FALSE
      [] OTHER -> TagName(node) = SelectorTag(selector)

\* soup.select(selector): the positions of the matching nodes, in document
\* order
SoupSelect(nodes, selector) ==
    LET F[i \in 0..Len(nodes)] ==
            IF i = 0 THEN <<>>
            ELSE IF Matches(nodes[i], selector) THEN Append(F[i - 1], i) ELSE F[i - 1]
    IN  F[Len(nodes)]

\* soup.select_one(selector): the first match, 0 for None
SoupSelectOne(nodes, selector) ==
    LET found == SoupSelect(nodes, selector)
    IN  IF found = <<>> THEN 0 ELSE found[1]

\* the list without the elements seen before, first occurrences kept
Unique(seq) ==
    LET F[i \in 0..Len(seq)] ==
            IF i = 0 THEN <<>>
            ELSE IF seq[i] \in Range(F[i - 1]) THEN F[i - 1] ELSE Append(F[i - 1], seq[i])
    IN  F[Len(seq)]

_find_all_interactive_elements(nodes) ==
    LET All[i \in 0..Len(InteractiveSelectors)] ==
            IF i = 0 THEN <<>>
            ELSE All[i - 1] \o SoupSelect(nodes, InteractiveSelectors[i])
    IN  Unique(All[Len(InteractiveSelectors)])

\* the info dict of one element
ElementInfo(node) ==
    [tag_name |-> TagName(node), text_content |-> Strip(node.text)]

\* get_element_info: what the call returns or raises.  "" is the missing
\* target_selector.  Without a selector and with at least one interactive
\* element, line 670 reads target_element, which only the branch of the
\* selector assigns: the read raises UnboundLocalError, and the statements
\* that build the list stand after a return
get_element_info(nodes, target_selector) ==
    LET target_elements ==
            IF target_selector # "" THEN <<SoupSelectOne(nodes, target_selector)>>
            ELSE _find_all_interactive_elements(nodes)
    IN  IF target_elements = <<>> \/ \A k \in 1..Len(target_elements) : target_elements[k] = 0
        THEN (IF target_selector # "" THEN [kind |-> "dict", value |-> <<>>]
              ELSE [kind |-> "list", value |-> <<>>])
        ELSE IF target_selector # ""
        THEN [kind |-> "dict", value |-> ElementInfo(nodes[target_elements[1]])]
        ELSE [kind |-> "raised", value |-> "UnboundLocalError"]

\* the nodes of the documents handed to get_element_info
InfoNodes ==
    {Node(T_a, NoStr, NoStr, NoStr, TxtOk, NoStr, NoStr, NoStr, NoStr, <<>>),
     Node(T_a, NoStr, NoStr, NoStr, NoStr, NoStr, NoStr, T_button, NoStr, <<>>),
     Node(T_button, NoStr, NoStr, NoStr, TxtOk, NoStr, NoStr, NoStr, NoStr, <<>>),
     Node(T_input, NoStr, NoStr, NoStr, NoStr, NoStr, NoStr, NoStr, NoStr, <<>>),
     Node(T_div, NoStr, NoStr, NoStr, TxtOk, NoStr, NoStr, T_button, NoStr, <<>>),
     Node(T_div, NoStr, NoStr, NoStr, NoStr, NoStr, NoStr, NoStr, NoStr, <<>>),
     Node(T_h1, NoStr, NoStr, NoStr, TxtOk, NoStr, NoStr, NoStr, NoStr, <<>>)}

TargetSelectors == {"", "a", "input", "div", "[role=\"button\"]"}

InitInfo ==
    /\ \E n \in 0..MaxNodes : document \in [1..n -> InfoNodes]
    /\ pc = "call"
    /\ entry = "none"
    /\ rerun = FALSE
    /\ elements = <<>>
    /\ locators = <<>>
    /\ summary = <<>>
    /\ prev = <<>>
    /\ framework = "none"
    /\ best = <<>>
    /\ \E sel \in TargetSelectors : call = [fn |-> "get_element_info", target_selector |-> sel]
    /\ ret = NoRet
    /\ files = NoFiles

GetElementInfo ==
    /\ pc = "call"
    /\ call.fn = "get_element_info"
    /\ ret' = [fn |-> call.fn, value |-> get_element_info(document, call.target_selector)]
    /\ pc' = "returned"
    /\ UNCHANGED <<document, entry, rerun, elements, locators, summary, prev, framework,
                   best, call, files>>

NextInfo == GetElementInfo

SpecInfo == InitInfo /\ [][NextInfo]_vars

\* ------------------------------------------------------------------------
\* core.py: _validate_locators_with_playwright
\* ------------------------------------------------------------------------
\* the position of the first character at or after i that is not a blank
RECURSIVE SkipSpaces(_, _)
SkipSpaces(s, i) == IF i <= Len(s) /\ IsSpace(s[i]) THEN SkipSpaces(s, i + 1) ELSE i

\* the position of the first quote at or after i, 0 when there is none
RECURSIVE NextQuote(_, _)
NextQuote(s, i) ==
    IF i > Len(s) THEN 0 ELSE IF s[i] = "'" THEN i ELSE NextQuote(s, i + 1)

\* the literal stands in s at position i
LitAt(s, i, lit) == i + Len(lit) - 1 <= Len(s) /\ SubSeq(s, i, i + Len(lit) - 1) = lit

NoParse == [parsed |-> FALSE]

\* r"getByRole\('\s*([^']+)\s*'\s*,\s*\{\s*name:\s*'([^']+)'\s*\}\)" tried at
\* position i: the two groups run up to the next quote
RoleMatchAt(s, i) ==
    LET j == i + 11
        q1 == NextQuote(s, j)
        a == SkipSpaces(s, q1 + 1)
        b == SkipSpaces(s, a + 1)
        c == SkipSpaces(s, b + 1)
        d == SkipSpaces(s, c + 5)
        q2 == NextQuote(s, d + 1)
        f == SkipSpaces(s, q2 + 1)
        lead == IF SkipSpaces(s, j) < q1 THEN SkipSpaces(s, j) ELSE q1 - 1
    IN  IF /\ LitAt(s, i, <<"g","e","t","B","y","R","o","l","e","(","'">>)
           /\ q1 > j
           /\ LitAt(s, a, <<",">>) /\ LitAt(s, b, <<"{">>)
           /\ LitAt(s, c, <<"n","a","m","e",":">>) /\ LitAt(s, d, <<"'">>)
           /\ q2 > d + 1
           /\ LitAt(s, f, <<"}",")">>)
        THEN [parsed |-> TRUE, role |-> SubSeq(s, lead, q1 - 1), name |-> SubSeq(s, d + 1, q2 - 1)]
        ELSE NoParse

\* parse_role_selector: re.search returns the leftmost match, None without one
parse_role_selector(expr) ==
    LET hits == {i \in 1..Len(expr) : RoleMatchAt(expr, i) # NoParse}
    IN  IF hits = {} THEN NoParse
        ELSE RoleMatchAt(expr, CHOOSE i \in hits : \A h \in hits : i <= h)

\* r"getByText\('\s*([^']+)\s*'\)" tried at position i
TextMatchAt(s, i) ==
    LET j == i + 11
        q1 == NextQuote(s, j)
        lead == IF SkipSpaces(s, j) < q1 THEN SkipSpaces(s, j) ELSE q1 - 1
    IN  IF /\ LitAt(s, i, <<"g","e","t","B","y","T","e","x","t","(","'">>)
           /\ q1 > j
           /\ LitAt(s, q1 + 1, <<")">>)
        THEN [parsed |-> TRUE, text |-> SubSeq(s, lead, q1 - 1)]
        ELSE NoParse

parse_text_selector(expr) ==
    LET hits == {i \in 1..Len(expr) : TextMatchAt(expr, i) # NoParse}
    IN  IF hits = {} THEN NoParse
        ELSE TextMatchAt(expr, CHOOSE i \in hits : \A h \in hits : i <= h)

\* dict.setdefault and dict.pop on a locator
SetDefault(l, k, v) == IF k \in DOMAIN l THEN l ELSE Put(l, k, v)
Pop(l, k) == [x \in DOMAIN l \ {k} |-> l[x]]

\* the answer of the page to locator.count(): a count, or LookupRaises when
\* the call raises
LookupRaises == -1

\* the branch of the except clause of the import: no browser tool
ValidateUnavailable(l) ==
    Put(SetDefault(SetDefault(l, "validated", FALSE), "match_count", 0),
        "validation_error", "Playwright not available")

\* faulty variant: any match at all counts as validated
ValidatedAnyMatch(count) == count >= 1

\* l["validated"] = bool(count == 1)
Validated(count) == count = 1

\* the try block of the loop up to the lookup: "lookup" when a page locator
\* was built, else the validation_error of the branch that gave up
LocatorFor(lt, val) ==
    IF lt = "css selector" \/ lt = "xpath" THEN "lookup"
    ELSE IF HasRoleWord(lt)
    THEN (IF parse_role_selector(val) = NoParse THEN "Unable to parse getByRole" ELSE "lookup")
    ELSE IF HasTextSelector(lt)
    THEN (IF parse_text_selector(val) = NoParse THEN "Unable to parse getByText" ELSE "lookup")
    ELSE "Unknown locator_type"

\* the body of the "for l in locators" loop; count is the page's answer
ValidateOne(l, count) ==
    LET base == Pop(SetDefault(SetDefault(l, "validated", FALSE), "match_count", 0),
                    "validation_error")
        lt == LowerType(Get(l, "locator_type", ""))
        val == Get(l, "locator_value", NoStr)
        built == LocatorFor(lt, val)
    IN  IF built # "lookup" THEN Put(base, "validation_error", built)
        ELSE IF count = LookupRaises THEN Put(base, "validation_error", "lookup failed")
        ELSE Put(Put(base, "match_count", count), "validated", Validated(count))

\* _validate_locators_with_playwright: the locators after the call.  The
\* launch of the browser and page.goto stand outside every try: when one of
\* them raises, the call raises and the locators stay as they were
_validate_locators_with_playwright(locs, available, page_opens, counts) ==
    IF ~available THEN [k \in 1..Len(locs) |-> ValidateUnavailable(locs[k])]
    ELSE IF ~page_opens THEN locs
    ELSE [k \in 1..Len(locs) |-> ValidateOne(locs[k], counts[k])]

\* a candidate as the generator writes it, for a link with the given text
\* and aria-label
ValCandidate(info) ==
    [custom_name |-> <<"X">>, locator_type |-> info.type, locator_value |-> info.selector]

ValCandidates ==
    {ValCandidate([type |-> "CSS Selector", selector |-> <<"a">>]),
     ValCandidate([type |-> "XPath", selector |-> <<"/","/","a">>]),
     ValCandidate([type |-> "ID", selector |-> S_go]),
     ValCandidate(_playwright_role_selector_for([tag |-> T_a, text |-> <<"O","k">>])),
     ValCandidate(_playwright_role_selector_for([tag |-> T_a, text |-> TxtQuote])),
     ValCandidate(_playwright_role_selector_for(
        [k \in {"tag", "text", "aria-label"} |->
            CASE k = "tag" -> T_a [] k = "text" -> <<"O","k">> [] OTHER -> S_blank])),
     ValCandidate(_playwright_role_selector_for(
        [k \in {"tag", "text", "aria-label"} |->
            CASE k = "tag" -> T_a [] k = "text" -> TxtQuote [] OTHER -> S_blank]))}

\* how many locators a validated list holds at most
MaxValidated == 2

InitValidate ==
    /\ document = <<>>
    /\ pc = "call"
    /\ entry = "none"
    /\ rerun = FALSE
    /\ elements = <<>>
    /\ \E n \in 0..MaxValidated :
          /\ locators \in [1..n -> ValCandidates]
          /\ \E available \in BOOLEAN, page_opens \in BOOLEAN :
             \E counts \in [1..n -> {LookupRaises, 0, 1, 2}] :
                /\ available \/ (page_opens /\ \A k \in 1..n : counts[k] = 1)
                /\ page_opens \/ \A k \in 1..n : counts[k] = 1
                /\ call = [fn |-> "_validate_locators_with_playwright",
                           locators |-> locators, available |-> available,
                           page_opens |-> page_opens, counts |-> counts]
    /\ summary = <<>>
    /\ prev = <<>>
    /\ framework = "none"
    /\ best = <<>>
    /\ ret = NoRet
    /\ files = NoFiles

ValidateLocators ==
    /\ pc = "call"
    /\ call.fn = "_validate_locators_with_playwright"
    /\ locators' = _validate_locators_with_playwright(locators, call.available,
                                                      call.page_opens, call.counts)
    /\ ret' = [fn |-> call.fn,
               value |-> IF call.available /\ ~call.page_opens THEN "raised" ELSE "returned"]
    /\ pc' = "returned"
    /\ UNCHANGED <<document, entry, rerun, elements, summary, prev, framework,
                   best, call, files>>

NextValidate == ValidateLocators

SpecValidate == InitValidate /\ [][NextValidate]_vars

TypeOK == pc \in {"start", "scanned", "generated", "summarized", "select", "selected",
                 "core", "done", "call", "returned"}

\* ------------------------------------------------------------------------
\* Helpers of the properties: where the entries of an element stand in the
\* candidate list
\* ------------------------------------------------------------------------
Generated == pc \in {"generated", "summarized"}

SeqRange(s) == {s[k] : k \in 1..Len(s)}

\* the position of the k-th entry of the given type
NthOfType(type, k) ==
    CHOOSE i \in 1..Len(locators) :
        /\ locators[i].locator_type = type
        /\ Cardinality({j \in 1..i : locators[j].locator_type = type}) = k

\* every element yields one CSS entry, first among its entries
CssEntry(k) == locators[NthOfType("CSS Selector", k)]
XPathEntry(k) == locators[NthOfType("XPath", k)]

\* the positions of the entries of element k: from its CSS entry up to the
\* next element's CSS entry
EntryPositions(k) ==
    LET first == NthOfType("CSS Selector", k)
        last == IF k < Len(elements) THEN NthOfType("CSS Selector", k + 1) - 1
                ELSE Len(locators)
    IN  first..last

HasUniqueId(k) ==
    /\ "id" \in DOMAIN elements[k]
    /\ Cardinality({j \in 1..Len(elements) :
                      "id" \in DOMAIN elements[j] /\ elements[j]["id"] = elements[k]["id"]}) = 1

HasSharedId(k) ==
    /\ "id" \in DOMAIN elements[k]
    /\ \E j \in 1..Len(elements) :
          j # k /\ "id" \in DOMAIN elements[j] /\ elements[j]["id"] = elements[k]["id"]

\* ------------------------------------------------------------------------
\* C1
\* ------------------------------------------------------------------------
\* C1: every candidate of the output carries the label of its score:
\* High iff score >= 8, Medium iff 5 <= score <= 7, Low iff score <= 4,
\* whatever stability the builder proposed.
C1_ScoreLabelConsistency ==
    \A k \in 1..Len(locators) :
        LET c == locators[k]
        IN  /\ c.stability \in {"High", "Medium", "Low"}
            /\ (c.stability = "High" <=> c.stability_score >= 8)
            /\ (c.stability = "Medium" <=> (5 <= c.stability_score /\ c.stability_score <= 7))
            /\ (c.stability = "Low" <=> c.stability_score <= 4)

\* an output whose CSS entry carries a label other than the builder's hint
C1_Witness ==
    /\ Generated
    /\ Len(elements) = 1
    /\ _css_selector_for(elements[1], elements).stability # locators[1].stability

\* ------------------------------------------------------------------------
\* C2
\* ------------------------------------------------------------------------
\* C2: an element whose id occurs once among the elements gets the CSS
\* selector '#' + id, with score 10 and label High.
C2_UniqueIdCss ==
    Generated =>
        \A k \in 1..Len(elements) :
            HasUniqueId(k) =>
                /\ CssEntry(k).locator_value = <<"#">> \o elements[k]["id"]
                /\ CssEntry(k).stability_score = 10
                /\ CssEntry(k).stability = "High"

\* a unique id on an element that also has a data-test attribute and a class
C2_Witness ==
    /\ Generated
    /\ \E k \in 1..Len(elements) :
          /\ HasUniqueId(k)
          /\ "data" \in DOMAIN elements[k]
          /\ "class" \in DOMAIN elements[k]

\* ------------------------------------------------------------------------
\* C3
\* ------------------------------------------------------------------------
\* C3: elements that share an id get no '#id' CSS selector (the selector is
\* the data-test, class or tag form), and all their entries are flagged
\* duplicate with the warning "Duplicate id detected".
C3_SharedIdFallback ==
    Generated =>
        \A k \in 1..Len(elements) :
            HasSharedId(k) =>
                /\ ~StartsWith(CssEntry(k).locator_value, <<"#">>)
                /\ \/ StartsWith(CssEntry(k).locator_value,
                                 <<"[","d","a","t","a","-","t","e","s","t","=">>)
                   \/ StartsWith(CssEntry(k).locator_value,
                                 <<"[","c","l","a","s","s","*","=">>)
                   \/ CssEntry(k).locator_value = elements[k]["tag"]
                /\ \A i \in EntryPositions(k) :
                      /\ locators[i].duplicate = TRUE
                      /\ "Duplicate id detected" \in SeqRange(locators[i].warnings)

\* two elements with one id, one of them with three entries
C3_Witness ==
    /\ Generated
    /\ \E k \in 1..Len(elements) :
          HasSharedId(k) /\ Cardinality(EntryPositions(k)) = 3

\* ------------------------------------------------------------------------
\* C4
\* ------------------------------------------------------------------------
\* the positional form //tag[N]: "//", a tag name of letters and digits,
\* "[", a decimal number, "]"
IsPositionalForm(val) ==
    /\ StartsWith(val, <<"/","/">>)
    /\ \E j \in 4..(Len(val) - 2) :
          /\ val[j] = "["
          /\ \A m \in 3..(j - 1) : IsAlnum(val[m])
          /\ \A m \in (j + 1)..(Len(val) - 1) : IsDigit(val[m])
          /\ val[Len(val)] = "]"

\* C4: every candidate whose value has the positional form //tag[N] has a
\* score of at most 2, for every tag name (h1..h6 included).
C4_PositionalPenalty ==
    \A k \in 1..Len(locators) :
        IsPositionalForm(locators[k].locator_value) => locators[k].stability_score <= 2

\* ------------------------------------------------------------------------
\* C5
\* ------------------------------------------------------------------------
\* the element's text is short and safe for the text-match XPath
HasSafeText(k) ==
    /\ "text" \in DOMAIN elements[k]
    /\ elements[k]["text"] # <<>>
    /\ Len(elements[k]["text"]) <= 60
    /\ "\n" \notin SeqRange(elements[k]["text"])
    /\ "'" \notin SeqRange(elements[k]["text"])

TextXPath(k) ==
    <<"/","/">> \o elements[k]["tag"] \o <<"[","t","e","x","t","(",")","=","'">>
    \o elements[k]["text"] \o <<"'","]">>

\* the element has none of id, data attributes, role, name, aria-label
HasNoSemanticAttribute(k) ==
    DOMAIN elements[k] \cap {"id", "data", "role", "name", "aria-label"} = {}

\* C5 as stated: an element with short safe text gets the XPath
\* //tag[text()='text'] with score 6 and label Medium.
C5_TextXPathScoresSix ==
    Generated =>
        \A k \in 1..Len(elements) :
            HasSafeText(k) =>
                /\ XPathEntry(k).locator_value = TextXPath(k)
                /\ XPathEntry(k).stability_score = 6
                /\ XPathEntry(k).stability = "Medium"

\* C5 amended: an element with short safe text gets the XPath
\* //tag[text()='text']; unless the text itself holds a //letters[digits]
\* pattern, its score is 6, or 5 when the element has none of id, data
\* attributes, role, name and aria-label, and its label is Medium; with such
\* a pattern in the text the score is at most 2 and the label Low.
C5_TextXPathScore ==
    Generated =>
        \A k \in 1..Len(elements) :
            HasSafeText(k) =>
                /\ XPathEntry(k).locator_value = TextXPath(k)
                /\ IF IndexedPattern(elements[k]["text"])
                   THEN /\ XPathEntry(k).stability_score <= 2
                        /\ XPathEntry(k).stability = "Low"
                   ELSE /\ XPathEntry(k).stability_score
                              = (IF HasNoSemanticAttribute(k) THEN 5 ELSE 6)
                        /\ XPathEntry(k).stability = "Medium"

\* an anchor with safe text and no other attribute: score 5
C5_Witness ==
    /\ Generated
    /\ \E k \in 1..Len(elements) :
          /\ HasSafeText(k)
          /\ ~IndexedPattern(elements[k]["text"])
          /\ elements[k]["tag"] = T_a
          /\ HasNoSemanticAttribute(k)
          /\ XPathEntry(k).stability_score = 5

\* ------------------------------------------------------------------------
\* C6
\* ------------------------------------------------------------------------
\* C6: every Role Selector candidate has score 9, or 8 under the penalty,
\* and label High.
C6_RoleSelectorIsHigh ==
    \A k \in 1..Len(locators) :
        locators[k].locator_type = "Role Selector" =>
            /\ locators[k].stability_score \in {8, 9}
            /\ locators[k].stability = "High"

\* ------------------------------------------------------------------------
\* C7
\* ------------------------------------------------------------------------
PlaywrightPreference == <<"Role Selector", "CSS Selector", "Text Selector", "XPath">>
SeleniumPreference == <<"CSS Selector", "XPath">>

\* the rank of a type in the framework's preference (lower is better); a
\* type the preference does not list ranks after all listed ones
Rank(fw, type) ==
    LET pref == IF fw = "playwright" THEN PlaywrightPreference ELSE SeleniumPreference
    IN  IF \E i \in 1..Len(pref) : pref[i] = type
        THEN CHOOSE i \in 1..Len(pref) : pref[i] = type
        ELSE Len(pref) + 1

AllowedTools(fw) ==
    IF fw = "playwright" THEN {"Playwright", "Both"} ELSE {"Selenium", "Both"}

KeyOf(c) == IF c.custom_name = <<>> THEN <<"E","l","e","m","e","n","t">> ELSE c.custom_name

\* the positions of the framework-compatible candidates of a name
CompatiblePositions(name) ==
    {k \in 1..Len(locators) :
        KeyOf(locators[k]) = name /\ locators[k].automation_tool \in AllowedTools(framework)}

\* C7: the winner of a name is one of its compatible candidates, has the
\* highest score among them and, among those of that score, the best rank
\* in the framework's type preference; whatever the order of the list.
C7_BestPerName ==
    pc = "selected" =>
        \A name \in DOMAIN best :
            /\ \E k \in CompatiblePositions(name) : locators[k] = best[name]
            /\ \A k \in CompatiblePositions(name) :
                  /\ locators[k].stability_score <= best[name].stability_score
                  /\ locators[k].stability_score = best[name].stability_score
                        => Rank(framework, best[name].locator_type)
                              <= Rank(framework, locators[k].locator_type)

\* a tie on the score that the type preference decides against the
\* candidate that comes last
C7_Witness ==
    /\ pc = "selected"
    /\ \E name \in DOMAIN best : \E i, j \in CompatiblePositions(name) :
          /\ i < j
          /\ locators[i].stability_score = best[name].stability_score
          /\ locators[j].stability_score = best[name].stability_score
          /\ Rank(framework, locators[i].locator_type) < Rank(framework, locators[j].locator_type)

\* ------------------------------------------------------------------------
\* C8
\* ------------------------------------------------------------------------
\* C8: every winner is compatible with the framework, and the names of the
\* result are exactly the names that have a compatible candidate.
C8_OnlyCompatibleWinners ==
    pc = "selected" =>
        /\ \A name \in DOMAIN best : best[name].automation_tool \in AllowedTools(framework)
        /\ DOMAIN best = {KeyOf(locators[k]) : k \in {i \in 1..Len(locators) :
                             locators[i].automation_tool \in AllowedTools(framework)}}

\* one name with a winner and another name with incompatible candidates only
C8_Witness ==
    /\ pc = "selected"
    /\ DOMAIN best # {}
    /\ \E k \in 1..Len(locators) : KeyOf(locators[k]) \notin DOMAIN best

\* ------------------------------------------------------------------------
\* C9
\* ------------------------------------------------------------------------
\* C9: the summary holds the keys total_elements, total_locators,
\* locator_distribution, framework_split and stability; total_elements is
\* the argument and total_locators the number of locators.
C9_SummaryKeys ==
    pc = "summarized" =>
        /\ {"total_elements", "total_locators", "locator_distribution",
            "framework_split", "stability"} \subseteq DOMAIN summary
        /\ summary["total_elements"] = Len(elements)
        /\ summary["total_locators"] = Len(locators)

\* ------------------------------------------------------------------------
\* C10
\* ------------------------------------------------------------------------
\* C10: a second run of the program on the same document yields the same
\* ordered candidate list as the first.
C10_Determinism ==
    (rerun /\ Generated) => locators = prev


\* ------------------------------------------------------------------------
\* C11
\* ------------------------------------------------------------------------
Done == pc = "done"

\* the rank of a stability label under Low < Medium < High
LabelRank(label) ==
    CASE label \in {"Low", "low"} -> 1
      [] label \in {"Medium", "medium"} -> 2
      [] label \in {"High", "high"} -> 3

\* the entries of s at the positions of K, in their order
RestrictTo(s, K) ==
    LET F[i \in 0..Len(s)] ==
            IF i = 0 THEN <<>>
            ELSE IF i \in K THEN Append(F[i - 1], s[i]) ELSE F[i - 1]
    IN  F[Len(s)]

\* the positions of the generated candidates at or above the threshold
KeptPositions ==
    LET cands == generate_locators_from_elements(elements)
    IN  {k \in 1..Len(cands) :
            LabelRank(cands[k].stability) >= LabelRank(call.min_stability)}

\* C11: with min_stability = M, the locators written to locators.json and
\* handed to the Page Objects are the generated candidates of rank >= rank(M)
\* under Low < Medium < High, in their order: none below is kept, none at or
\* above is dropped; with M = High all of them are High.
C11_MinStabilityFilter ==
    (Done /\ call.min_stability # "") =>
        LET cands == generate_locators_from_elements(elements)
            kept == RestrictTo(cands, KeptPositions)
        IN  /\ files[JsonFile].locators = kept
            /\ locators = kept
            /\ files[JsonFile].metadata.total_locators = Cardinality(KeptPositions)
            /\ LabelRank(call.min_stability) = 3 =>
                  \A k \in 1..Len(locators) : locators[k].stability = "High"

\* threshold Medium: a Medium candidate is kept, a Low one dropped, and a
\* candidate is kept after a dropped one
C11_Witness ==
    /\ Done
    /\ call.min_stability = "Medium"
    /\ \E k \in 1..Len(locators) : locators[k].stability = "Medium"
    /\ LET cands == generate_locators_from_elements(elements)
       IN  \E i, j \in 1..Len(cands) :
              i < j /\ i \notin KeptPositions /\ j \in KeptPositions

\* ------------------------------------------------------------------------
\* C12
\* ------------------------------------------------------------------------
\* the names requested, lower-cased; no argument means both
RequestedFrameworks ==
    IF call.frameworks.none THEN {"playwright", "selenium"}
    ELSE {Lower(call.frameworks.list[k]) : k \in 1..Len(call.frameworks.list)}

ToolOfType(type) ==
    CASE type \in {"Role Selector", "Text Selector"} -> "Playwright"
      [] type = "XPath" -> "Selenium"
      [] type = "CSS Selector" -> "Both"

\* C13: every candidate has one of the four locator types and the tool of
\* that type alone: Role and Text Selector give Playwright, XPath gives
\* Selenium, CSS Selector gives Both.
C13_ToolByType ==
    \A k \in 1..Len(locators) :
        /\ locators[k].locator_type \in LocatorTypes
        /\ locators[k].automation_tool = ToolOfType(locators[k].locator_type)

\* an output with a CSS, an XPath and a Text Selector candidate
C13_Witness ==
    /\ Generated
    /\ \A t \in {"CSS Selector", "XPath", "Text Selector"} :
          \E k \in 1..Len(locators) : locators[k].locator_type = t

\* an output with a Role Selector candidate
C13_RoleWitness ==
    /\ Generated
    /\ \E k \in 1..Len(locators) : locators[k].locator_type = "Role Selector"

\* ------------------------------------------------------------------------
\* C16
\* ------------------------------------------------------------------------
\* C16: no two entries of the output have the same custom_name,
\* locator_type and locator_value.
C16_NoDuplicateEntries ==
    \A i, j \in 1..Len(locators) :
        (/\ locators[i].custom_name = locators[j].custom_name
         /\ locators[i].locator_type = locators[j].locator_type
         /\ locators[i].locator_value = locators[j].locator_value) => i = j

\* ------------------------------------------------------------------------
\* C18
\* ------------------------------------------------------------------------
\* the 1-based position of element k among the elements of its tag
PositionAmongTag(k) ==
    Cardinality({j \in 1..k : elements[j]["tag"] = elements[k]["tag"]})

\* C18: an element without short safe text gets the XPath //tag[k] with k
\* its 1-based position among the same-tag elements, with or without a class.
C18_PositionalIndex ==
    Generated =>
        \A k \in 1..Len(elements) :
            ~HasSafeText(k) =>
                XPathEntry(k).locator_value
                    = <<"/","/">> \o elements[k]["tag"] \o <<"[">>
                      \o IntToStr(PositionAmongTag(k)) \o <<"]">>

\* ------------------------------------------------------------------------
\* C19
\* ------------------------------------------------------------------------
BuiltFromTestId(val) ==
    \/ StartsWith(val, <<"[","d","a","t","a","-","t","e","s","t","=">>)
    \/ StartsWith(val, <<"[","d","a","t","a","-","t","e","s","t","i","d","=">>)

\* C19: a CSS candidate built from a test-id attribute scores 9; a
\* partial-class selector scores 5 or 6; the bare tag name or '*' scores 2
\* or 3; a CSS candidate scores 9 only if built from a test-id attribute.
C19_CssScoreTable ==
    Generated =>
        \A k \in 1..Len(elements) :
            LET c == CssEntry(k)
            IN  /\ BuiltFromTestId(c.locator_value) => c.stability_score = 9
                /\ StartsWith(c.locator_value, <<"[","c","l","a","s","s","*","=">>)
                      => c.stability_score \in {5, 6}
                /\ c.locator_value \in {elements[k]["tag"], <<"*">>}
                      => c.stability_score \in {2, 3}
                /\ c.stability_score = 9 => BuiltFromTestId(c.locator_value)

\* ------------------------------------------------------------------------
\* C20
\* ------------------------------------------------------------------------
\* the test-id attribute of element k that the chain uses, if it has one
TestIdKeys(k) ==
    IF "data" \in DOMAIN elements[k]
    THEN DOMAIN elements[k]["data"] \cap {"data-test", "data-testid"} ELSE {}

AttrName(key) ==
    IF key = "data-test" THEN <<"d","a","t","a","-","t","e","s","t">>
    ELSE <<"d","a","t","a","-","t","e","s","t","i","d">>

\* C20: the CSS value of an element is '#id' for a unique id; else
\* [attr='value'] for a data-test or data-testid attribute; else
\* [class*='first token'] for a class list; else the tag name; and the
\* element has exactly one CSS candidate.
C20_CssChain ==
    Generated =>
        \A k \in 1..Len(elements) :
            LET e == elements[k]
                val == CssEntry(k).locator_value
            IN  /\ Cardinality({i \in EntryPositions(k) :
                                  locators[i].locator_type = "CSS Selector"}) = 1
                /\ IF HasUniqueId(k) THEN val = <<"#">> \o e["id"]
                   ELSE IF TestIdKeys(k) # {}
                   THEN \E key \in TestIdKeys(k) :
                           val = <<"[">> \o AttrName(key) \o <<"=","'">>
                                 \o EscapeQuote(e["data"][key]) \o <<"'","]">>
                   ELSE IF "class" \in DOMAIN e /\ FirstBySpace(e["class"]) # <<>>
                   THEN val = <<"[","c","l","a","s","s","*","=","'">>
                              \o EscapeQuote(FirstBySpace(e["class"])) \o <<"'","]">>
                   ELSE val = e["tag"]


\* ------------------------------------------------------------------------
\* C17
\* ------------------------------------------------------------------------
\* the elements that have a candidate the framework can run
CoveredElements(fw) ==
    {k \in 1..Len(elements) :
        \E i \in EntryPositions(k) : locators[i].automation_tool \in AllowedTools(fw)}

\* the handle lines of the framework's Page Object file
HandlesOf(fw) ==
    files[IF fw = "playwright" THEN PlaywrightFile(call.class_name)
          ELSE SeleniumFile(call.class_name)].handles

\* C17: a Page Object generated from the candidates of k elements that each
\* have a framework-compatible candidate has k handles with k distinct
\* names, one for each element.
C17_OneHandlePerElement ==
    (Done /\ call.min_stability = "") =>
        \A fw \in RequestedFrameworks :
            LET h == HandlesOf(fw)
            IN  /\ Len(h) = Cardinality(CoveredElements(fw))
                /\ \A i, j \in 1..Len(h) : h[i].var = h[j].var => i = j


\* ------------------------------------------------------------------------
\* C14
\* ------------------------------------------------------------------------
Returned(fn) == pc = "returned" /\ call.fn = fn

\* C14: for every element record, locator type and locator value the scorer
\* returns an integer from 1 to 10; the penalty never takes it below 1.
C14_ScoreInRange ==
    Returned("_compute_stability_score") => ret.value \in 1..10

\* a positional XPath on an element without semantic attributes: the rule
\* gives 2 and the penalty leaves 1
C14_Witness ==
    /\ Returned("_compute_stability_score")
    /\ DOMAIN call.elem \cap {"id", "data", "role", "name", "aria-label"} = {}
    /\ call.locator_type = "XPath"
    /\ call.locator_value = <<"/","/","a","[","1","]">>
    /\ ret.value = 1

\* ------------------------------------------------------------------------
\* C15
\* ------------------------------------------------------------------------
\* the suffix of a tag
SuffixOf(tag) ==
    CASE tag = <<"a">> -> <<"L","i","n","k">>
      [] tag = <<"b","u","t","t","o","n">> -> <<"B","u","t","t","o","n">>
      [] tag = <<"i","n","p","u","t">> -> <<"I","n","p","u","t">>
      [] tag = <<"s","e","l","e","c","t">> -> <<"S","e","l","e","c","t">>
      [] tag = <<"t","e","x","t","a","r","e","a">> -> <<"T","e","x","t","a","r","e","a">>
      [] OTHER -> <<"E","l","e","m","e","n","t">>

\* the raw signal that wins: visible text of a link or button, label text,
\* aria-label, placeholder of an input or textarea, data-test, id, first
\* class token, tag
WinningSignal(e) ==
    LET has(k) == k \in DOMAIN e /\ (k # "data" => Strip(e[k]) # <<>>)
        tag == e["tag"]
    IN  IF tag \in {<<"a">>, <<"b","u","t","t","o","n">>} /\ has("text") THEN e["text"]
        ELSE IF has("label_text") THEN e["label_text"]
        ELSE IF has("aria-label") THEN e["aria-label"]
        ELSE IF has("placeholder")
                /\ tag \in {<<"i","n","p","u","t">>, <<"t","e","x","t","a","r","e","a">>}
             THEN e["placeholder"]
        ELSE IF has("data") /\ "data-test" \in DOMAIN e["data"] THEN e["data"]["data-test"]
        ELSE IF has("id") THEN e["id"]
        ELSE IF has("class") THEN FirstBySpace(e["class"])
        ELSE tag

\* C15: when the camel-cased winning signal already ends with the tag's
\* suffix the name is that token unchanged, with no suffix appended;
\* otherwise the name is the token followed by the suffix.
C15_NoDoubledSuffix ==
    Returned("_guess_custom_name") =>
        LET token == _to_camel_case(WinningSignal(call.elem))
            suffix == SuffixOf(call.elem["tag"])
        IN  IF EndsWith(token, suffix)
            THEN ret.value = token
            ELSE ret.value = token \o suffix

\* a button whose id x-button gives the token XButton: the name is XButton
C15_Witness ==
    /\ Returned("_guess_custom_name")
    /\ call.elem["tag"] = <<"b","u","t","t","o","n">>
    /\ DOMAIN call.elem = {"tag", "id"}
    /\ call.elem["id"] = <<"x","-","b","u","t","t","o","n">>
    /\ ret.value = <<"X","B","u","t","t","o","n">>

\* ------------------------------------------------------------------------
\* C21
\* ------------------------------------------------------------------------
\* the five conditions in the order of their warnings
WarningOrder == <<W_DupId, W_DupName, W_DynId, W_DynClass, W_DynName>>

\* how many records of the list carry the value under the key
Occurrences(elems, key, value) ==
    Cardinality({k \in 1..Len(elems) : key \in DOMAIN elems[k] /\ elems[k][key] = value})

\* the positions of WarningOrder whose condition holds for the element
FiredConditions(e, elems) ==
    {c \in 1..5 :
        CASE c = 1 -> "id" \in DOMAIN e /\ Occurrences(elems, "id", e["id"]) > 1
          [] c = 2 -> "name" \in DOMAIN e /\ Occurrences(elems, "name", e["name"]) > 1
          [] c = 3 -> "id" \in DOMAIN e /\ looks_dynamic(e["id"])
          [] c = 4 -> "class" \in DOMAIN e
                      /\ \E t \in Range(SplitTokens(e["class"])) : looks_dynamic(t)
          [] c = 5 -> "name" \in DOMAIN e /\ looks_dynamic(e["name"])}

\* C21: the warnings are the subsequence of duplicate-id, duplicate-name,
\* dynamic-id, dynamic-class-token, dynamic-name made of the conditions
\* that fired, in that order and each once; duplicate is true iff the id or
\* the name occurs more than once, dynamic iff the id, the name or a class
\* token looks dynamic.
C21_WarningsInOrder ==
    Returned("analyze_element_warnings") =>
        LET fired == FiredConditions(call.elem, elements)
        IN  /\ ret.value.warnings = RestrictTo(WarningOrder, fired)
            /\ ret.value.duplicate = (fired \cap {1, 2} # {})
            /\ ret.value.dynamic = (fired \cap {3, 4, 5} # {})

\* the hash-like id of two records with two dynamic class tokens: duplicate
\* id, dynamic id and one class-token warning
C21_Witness ==
    /\ Returned("analyze_element_warnings")
    /\ "id" \in DOMAIN call.elem /\ call.elem["id"] = S_hashId
    /\ "class" \in DOMAIN call.elem /\ call.elem["class"] = S_twoDynamicTokens
    /\ ret.value.warnings = <<W_DupId, W_DynId, W_DynClass>>
    /\ ret.value.dynamic /\ ret.value.duplicate

\* ------------------------------------------------------------------------
\* C22
\* ------------------------------------------------------------------------
\* the value of a key of the record, empty when the key is absent
SignalAt(e, key) == IF key \in DOMAIN e THEN Strip(e[key]) ELSE <<>>

\* the eight signals of a record in priority order, empty where the signal
\* is absent or does not apply to the tag; the test-id attribute the naming
\* step reads is data-test
SignalsInOrder(e) ==
    LET tag == e["tag"]
    IN  <<IF tag \in {<<"b","u","t","t","o","n">>, <<"a">>} THEN SignalAt(e, "text") ELSE <<>>,
          SignalAt(e, "label_text"),
          SignalAt(e, "aria-label"),
          IF tag \in {<<"i","n","p","u","t">>, <<"t","e","x","t","a","r","e","a">>}
          THEN SignalAt(e, "placeholder") ELSE <<>>,
          IF "data" \in DOMAIN e /\ "data-test" \in DOMAIN e["data"]
          THEN e["data"]["data-test"] ELSE <<>>,
          SignalAt(e, "id"),
          IF "class" \in DOMAIN e THEN FirstBySpace(e["class"]) ELSE <<>>,
          tag>>

\* the position of the first non-empty signal
FirstSignal(e) ==
    CHOOSE p \in 1..8 :
        /\ SignalsInOrder(e)[p] # <<>>
        /\ \A q \in 1..(p - 1) : SignalsInOrder(e)[q] = <<>>

RoleOf(e) ==
    LET tag == e["tag"]
    IN  IF "role" \in DOMAIN e THEN e["role"]
        ELSE IF tag = <<"a">> THEN <<"l","i","n","k">>
        ELSE IF tag = <<"b","u","t","t","o","n">> THEN <<"b","u","t","t","o","n">>
        ELSE IF tag = <<"i","n","p","u","t">>
                /\ ("type" \in DOMAIN e =>
                        e["type"] \in {<<"t","e","x","t">>, <<"s","e","a","r","c","h">>,
                                       <<"e","m","a","i","l">>, <<"p","a","s","s","w","o","r","d">>})
             THEN <<"t","e","x","t","b","o","x">>
        ELSE <<>>

\* the accessible name: the aria-label when present, else the visible
\* text, without the surrounding blanks
AccessibleName(e) ==
    Strip(IF "aria-label" \in DOMAIN e THEN e["aria-label"]
          ELSE IF "text" \in DOMAIN e THEN e["text"] ELSE <<>>)

\* the record is a link or a button with visible text
IsTextual(e) ==
    /\ e["tag"] \in {<<"a">>, <<"b","u","t","t","o","n">>}
    /\ "text" \in DOMAIN e /\ Strip(e["text"]) # <<>>

\* C23: the builder returns a Role Selector exactly when the record has a
\* role (explicit, or inferred for a, button and text-like inputs) and a
\* non-empty accessible name, and the selector names that role; a select,
\* a textarea or an input of another type without an explicit role gets
\* no Role Selector; when neither the role rule nor the rule for a link or
\* button with text applies the builder returns nothing.
C23_RoleRule ==
    Returned("_playwright_role_selector_for") =>
        LET e == call.elem
            roleRule == RoleOf(e) # <<>> /\ AccessibleName(e) # <<>>
        IN  /\ (ret.value.type = "Role Selector") = roleRule
            /\ roleRule =>
                  StartsWith(ret.value.selector,
                             <<"p","a","g","e",".","g","e","t","B","y","R","o","l","e","(","'">>
                             \o RoleOf(e) \o <<"'">>)
            /\ (ret.value = NoLocator) = (~roleRule /\ ~IsTextual(e))

\* a checkbox with an aria-label and no explicit role: nothing is returned
C23_Witness ==
    /\ Returned("_playwright_role_selector_for")
    /\ call.elem["tag"] = <<"i","n","p","u","t">>
    /\ "type" \in DOMAIN call.elem /\ call.elem["type"] = <<"c","h","e","c","k","b","o","x">>
    /\ "aria-label" \in DOMAIN call.elem /\ "role" \notin DOMAIN call.elem
    /\ ret.value = NoLocator

\* a search input with an aria-label: a textbox Role Selector
C23_TextboxWitness ==
    /\ Returned("_playwright_role_selector_for")
    /\ call.elem["tag"] = <<"i","n","p","u","t">>
    /\ "type" \in DOMAIN call.elem /\ call.elem["type"] = <<"s","e","a","r","c","h">>
    /\ "aria-label" \in DOMAIN call.elem /\ "role" \notin DOMAIN call.elem
    /\ ret.value.type = "Role Selector"

\* ------------------------------------------------------------------------
\* C24
\* ------------------------------------------------------------------------
\* C24: every record the extractor produced has a tag that is non-empty
\* and holds no upper-case letter, and no other key of the record holds an
\* empty (or null) value: an attribute that is missing or empty in the
\* document is an absent key.
C24_NoEmptyValues ==
    entry = "scan" =>
        \A k \in 1..Len(elements) :
            LET e == elements[k]
            IN  /\ "tag" \in DOMAIN e
                /\ e["tag"] # <<>>
                /\ \A c \in Range(e["tag"]) : ~IsUpper(c)
                /\ \A key \in DOMAIN e \ {"tag"} : e[key] # <<>>

\* the document <A>Ok</A> is scanned: the record has the tag a and the text
\* and no other key
C24_Witness ==
    /\ entry = "scan" /\ pc = "scanned"
    /\ Len(document) = 1 /\ document[1].tag = <<"A">>
    /\ Len(elements) = 1
    /\ elements[1]["tag"] = <<"a">>
    /\ DOMAIN elements[1] = {"tag", "text"}

\* ------------------------------------------------------------------------
\* C25
\* ------------------------------------------------------------------------
\* C25: generate_locators_from_elements leaves its input as it found it:
\* across the call the list of records, and every key and value of every
\* record, are the same.
C25_InputUnchanged ==
    [][(pc = "scanned" /\ pc' = "generated") => elements' = elements]_vars

\* the call has returned on two records, one of them without text
C25_Witness ==
    /\ pc = "generated"
    /\ Len(elements) = 2
    /\ "text" \notin DOMAIN elements[1]
    /\ Len(locators) >= 4

\* ------------------------------------------------------------------------
\* C26
\* ------------------------------------------------------------------------
\* the node is one that _find_all_interactive_elements collects
IsInteractive(node) ==
    \/ TagName(node) \in {<<"b","u","t","t","o","n">>, <<"i","n","p","u","t">>,
                          <<"s","e","l","e","c","t">>, <<"t","e","x","t","a","r","e","a">>, <<"a">>}
    \/ node.role = <<"b","u","t","t","o","n">>

\* C26: get_element_info never raises; without a target_selector it
\* returns a list with one info record per interactive element of the
\* document, each element once, and [] when there is none; with a
\* target_selector it returns the info dict of the first matching element,
\* or {} when nothing matches.
C26_InfoNeverRaises ==
    Returned("get_element_info") =>
        /\ ret.value.kind # "raised"
        /\ call.target_selector = "" =>
              /\ ret.value.kind = "list"
              /\ Len(ret.value.value)
                    = Cardinality({k \in 1..Len(document) : IsInteractive(document[k])})
        /\ call.target_selector # "" =>
              /\ ret.value.kind = "dict"
              /\ (ret.value.value = <<>>)
                    = (\A k \in 1..Len(document) : ~Matches(document[k], call.target_selector))

\* a document with one link and no target_selector: the call raises
C26_RaisesOnList ==
    /\ Returned("get_element_info")
    /\ call.target_selector = ""
    /\ Len(document) = 1 /\ document[1].tag = <<"a">>
    /\ ret.value.kind = "raised"

\* ------------------------------------------------------------------------
\* C27
\* ------------------------------------------------------------------------
\* the locator's value cannot be parsed back into a role and a name, or
\* into a text
CannotBeParsed(l) ==
    \/ l.locator_type = "Role Selector" /\ parse_role_selector(l.locator_value) = NoParse
    \/ l.locator_type = "Text Selector" /\ parse_text_selector(l.locator_value) = NoParse

\* C27: once _validate_locators_with_playwright has returned on locators
\* without validation fields, every locator has validated and match_count
\* and validated is true iff match_count is 1; a locator met without the
\* browser tool, or that cannot be parsed, or whose lookup raised, has
\* validated false, match_count 0 and a validation_error; and every other
\* locator of a known type, wherever it stands in the list, carries the
\* count the page answered.
C27_ValidationFields ==
    (Returned("_validate_locators_with_playwright") /\ ret.value = "returned") =>
        /\ Len(locators) = Len(call.locators)
        /\ \A k \in 1..Len(locators) :
              LET l == locators[k]
                  before == call.locators[k]
                  failed == \/ ~call.available
                            \/ CannotBeParsed(before)
                            \/ call.counts[k] = LookupRaises
              IN  /\ {"validated", "match_count"} \subseteq DOMAIN l
                  /\ l["validated"] = (l["match_count"] = 1)
                  /\ failed => /\ l["validated"] = FALSE
                               /\ l["match_count"] = 0
                               /\ "validation_error" \in DOMAIN l
                  /\ (~failed /\ before.locator_type # "ID") =>
                        /\ l["match_count"] = call.counts[k]
                        /\ "validation_error" \notin DOMAIN l

\* the first locator names it's and cannot be parsed, the second matches
\* once: the first has an error, the second is validated
C27_Witness ==
    /\ Returned("_validate_locators_with_playwright")
    /\ Len(locators) = 2
    /\ CannotBeParsed(call.locators[1])
    /\ "validation_error" \in DOMAIN locators[1] /\ locators[1]["validated"] = FALSE
    /\ call.locators[2].locator_type = "CSS Selector"
    /\ locators[2]["validated"] = TRUE /\ locators[2]["match_count"] = 1

\* ------------------------------------------------------------------------
\* C28
\* ------------------------------------------------------------------------
\* the type of the i-th candidate, "none" outside the list
TypeAt(i) == IF i \in 1..Len(locators) THEN locators[i].locator_type ELSE "none"

\* C28: the candidates come element by element in input order, and for
\* each element one CSS Selector, then one XPath, then at most one Role or
\* Text Selector, next to each other and with the element's custom_name,
\* dynamic, duplicate and warnings; so n elements give between 2n and 3n
\* candidates.
C28_EntryOrder ==
    Generated =>
        LET n == Len(elements)
        IN  /\ Len(locators) \in (2 * n)..(3 * n)
            /\ Cardinality({i \in 1..Len(locators) : TypeAt(i) = "CSS Selector"}) = n
            /\ Cardinality({i \in 1..Len(locators) : TypeAt(i) = "XPath"}) = n
            /\ \A i \in 1..Len(locators) :
                  CASE TypeAt(i) = "CSS Selector" ->
                          TypeAt(i + 1) = "XPath" /\ TypeAt(i - 1) # "CSS Selector"
                    [] TypeAt(i) = "XPath" ->
                          TypeAt(i - 1) = "CSS Selector"
                    [] TypeAt(i) \in {"Role Selector", "Text Selector"} ->
                          TypeAt(i - 1) = "XPath"
                    [] OTHER -> FALSE
            /\ \A i \in 1..Len(locators) :
                  LET l == locators[i]
                      k == Cardinality({j \in 1..i : TypeAt(j) = "CSS Selector"})
                  IN  IF TypeAt(i) = "CSS Selector"
                      THEN /\ l.custom_name = _guess_custom_name(elements[k])
                           /\ [dynamic |-> l.dynamic, duplicate |-> l.duplicate,
                               warnings |-> l.warnings]
                                 = analyze_element_warnings(elements[k], elements)
                      ELSE /\ l.custom_name = locators[i - 1].custom_name
                           /\ l.dynamic = locators[i - 1].dynamic
                           /\ l.duplicate = locators[i - 1].duplicate
                           /\ l.warnings = locators[i - 1].warnings

\* a link with text followed by a bare input: CSS, XPath and Role Selector
\* of the link, then CSS and XPath of the input
C28_Witness ==
    /\ pc = "generated"
    /\ Len(elements) = 2
    /\ Len(locators) = 5
    /\ locators[3].locator_type = "Role Selector"
    /\ locators[4].locator_type = "CSS Selector"
    /\ locators[1].custom_name # locators[4].custom_name

\* ------------------------------------------------------------------------
\* C29
\* ------------------------------------------------------------------------
\* C29: in the summary of a generated candidate list, filtered by a
\* minimum stability or not, each of the three splits counts every locator
\* once: css + xpath + role, playwright + selenium + both and high +
\* medium + low all equal the number of locators; and css = both, xpath =
\* selenium, role = playwright.
C29_SummarySplits ==
    Done =>
        LET d == summary.locator_distribution
            f == summary.framework_split
            s == summary.stability
            n == Len(locators)
        IN  /\ d.css + d.xpath + d.role = n
            /\ f.playwright + f.selenium + f.both = n
            /\ s.high + s.medium + s.low = n
            /\ d.css = f.both
            /\ d.xpath = f.selenium
            /\ d.role = f.playwright

\* a list filtered at Medium that keeps a Text Selector and has lost some
\* candidate: the role count is positive and the splits still add up
C29_Witness ==
    /\ Done
    /\ call.min_stability = "Medium"
    /\ \E k \in 1..Len(locators) : locators[k].locator_type = "Text Selector"
    /\ Len(locators) < 3 * Len(elements)
    /\ Len(elements) = 2
    /\ summary.locator_distribution.role >= 1
    /\ summary.locator_distribution.css < Len(elements)

\* ------------------------------------------------------------------------
\* C30
\* ------------------------------------------------------------------------
\* the type of the entry that follows the CSS and XPath entries of element
\* k, "none" when the element has no third entry
ThirdType(k) ==
    LET third == NthOfType("XPath", k) + 1
    IN  IF TypeAt(third) \in {"Role Selector", "Text Selector"} THEN TypeAt(third) ELSE "none"

\* the aria-label of the record is there and holds blanks only
HasBlankAria(e) == "aria-label" \in DOMAIN e /\ Strip(e["aria-label"]) = <<>>

\* C30: an element gets a Text Selector only if it is an a or a button
\* with non-empty text whose aria-label is present and blank, the
\* accessible name being empty for that reason; an a or button with text
\* and an absent or non-blank aria-label gets a Role Selector; no other tag
\* gets a Text Selector; and a Text Selector scores 6, less the point of
\* the universal penalty when the element has no semantic attribute.
C30_TextSelectorCase ==
    Generated =>
        \A k \in 1..Len(elements) :
            LET e == elements[k]
            IN  /\ ThirdType(k) = "Text Selector" =>
                      /\ IsTextual(e) /\ HasBlankAria(e) /\ AccessibleName(e) = <<>>
                      /\ locators[NthOfType("XPath", k) + 1].stability_score
                            = (IF HasNoSemanticAttribute(k) THEN 5 ELSE 6)
                /\ (IsTextual(e) /\ ~HasBlankAria(e)) => ThirdType(k) = "Role Selector"
                /\ ~IsTextual(e) => ThirdType(k) # "Text Selector"

\* the button <button aria-label=" ">Ok</button>: a Text Selector scored 6
C30_Witness ==
    /\ pc = "generated"
    /\ Len(elements) = 1
    /\ elements[1]["tag"] = <<"b","u","t","t","o","n">>
    /\ DOMAIN elements[1] = {"tag", "text", "aria-label"}
    /\ elements[1]["aria-label"] = <<" ">>
    /\ Len(locators) = 3
    /\ locators[3].locator_type = "Text Selector"
    /\ locators[3].stability_score = 6
    /\ locators[3].stability = "Medium"

=============================================================================
